---- MODULE Spec2Model ----
(***************************************************************************)
(* Unrolled linked list (canonical, sentinel-free variant of              *)
(* src/unnamed/part_001, lines 611-1219).                                  *)
(*                                                                         *)
(* The container is w = [heap, head, tail, total_size, allocator, ...]:    *)
(*   heap        node id -> Node (count, next, prev, data slots)           *)
(*   head, tail  node ids, Null when the list is empty                     *)
(*   total_size  the cached element count                                  *)
(*   allocator   the container's allocator member, named by the object     *)
(*               it is a member of ("this", "other", "tmp")                *)
(*   arena       the end of the heap its allocations are taken from        *)
(*   work        element constructions and destructions made in a call     *)
(*   cap         the template parameter NodeMaxSize it is instantiated with*)
(*   misuse      a call destroyed a slot that held no object, or           *)
(*               constructed over one that did                             *)
(* Every member function is an operator from a container (and arguments)  *)
(* to the container after the call, the returned iterator and the         *)
(* exception raised, written statement by statement from the source.      *)
(***************************************************************************)
EXTENDS Integers, Sequences, FiniteSets, TLC

\* ---------------------------------------------------------------- bounds
NodeMaxSize == 2      \* template parameter NodeMaxSize, instantiated small
MaxSize == 4          \* insertions are offered while size() < MaxSize
MaxNodes == 13        \* node ids the allocator can hand out
MaxCount == 2         \* insert(pos, count, value) is offered for count <= MaxCount
MaxPush == 14         \* length of the push_back run of the push/pop scenario
MaxDraftNodes == 4    \* sentinel draft: nodes held at once, dummy included

\* ------------------------------------------------------------- constants
Null == 0             \* nullptr
RAW == 0              \* a slot of uninitialized (or destroyed) storage
MOVED == -1           \* a slot holding a constructed, moved-from object
SIZE_MAX == 2147483647 \* the value size_type wraps to below zero

\* Element values.  The container never inspects an element (it only
\* constructs, moves and destroys them), so two values tell every
\* reordering, loss or duplication apart.
Values == {1, 2}
NodeIds == 1..MaxNodes

\* With two containers, insertions are offered while size() < MaxSizeTwo:
\* room for one split.
MaxSizeTwo == NodeMaxSize + 1
Slots == 0..(NodeMaxSize - 1)

\* ------------------------------------------------------------------ Node
\* struct Node after Node(alloc): count 0, no links, raw storage; allocator
\* is the allocator member the reference was bound to ("none" until
\* create_node binds it).  overrun: an element was constructed past the end
\* of data.
Node == [live |-> TRUE, count |-> 0, next |-> Null, prev |-> Null,
         data |-> [i \in Slots |-> RAW], overrun |-> FALSE,
         allocator |-> "none"]

\* Storage the node allocator holds no node in.
FreeNode == [live |-> FALSE, count |-> 0, next |-> Null, prev |-> Null,
             data |-> [i \in Slots |-> RAW], overrun |-> FALSE,
             allocator |-> "none"]

\* An iterator is (current_node, index_in_node); parent is the container
\* the operators are applied to.
Iter(node, index) == [node |-> node, index |-> index]

\* size_type subtraction c - 1 (unsigned: 0 - 1 wraps).
Dec(c) == IF c > 0 THEN c - 1 ELSE SIZE_MAX

\* *node->elem(index): reading outside the constructed slots yields no value.
elem(w, node, index) ==
    IF node \in NodeIds /\ index \in Slots
    THEN w.heap[node].data[index]
    ELSE RAW

\* unrolled_list(): empty chain, nothing allocated.
EmptyList == [heap |-> [n \in NodeIds |-> FreeNode],
              head |-> Null, tail |-> Null, total_size |-> 0,
              arena |-> "this", work |-> 0, cap |-> NodeMaxSize,
              misuse |-> FALSE, allocator |-> "this"]

begin(w) == Iter(w.head, 0)
end(w) == Iter(Null, 0)
size(w) == w.total_size

\* Faulty variant of Inc: the index advances while index < count.
Inc_past(w, it) ==
    IF it.node = Null THEN it
    ELSE IF it.index < w.heap[it.node].count
         THEN Iter(it.node, it.index + 1)
         ELSE Iter(w.heap[it.node].next, 0)

\* iterator::operator++
Inc(w, it) ==
    IF it.node = Null THEN it
    ELSE IF it.index < Dec(w.heap[it.node].count)
         THEN Iter(it.node, it.index + 1)
         ELSE Iter(w.heap[it.node].next, 0)

\* Faulty variant of IterDec: from index 0 to the first slot of prev.
IterDec_first(w, it) ==
    IF it.node = Null
    THEN IF w.tail # Null
         THEN Iter(w.tail, Dec(w.heap[w.tail].count))
         ELSE Iter(w.tail, it.index)
    ELSE IF it.index > 0
         THEN Iter(it.node, it.index - 1)
         ELSE Iter(w.heap[it.node].prev, 0)

\* iterator::operator--
IterDec(w, it) ==
    IF it.node = Null
    THEN IF w.tail # Null
         THEN Iter(w.tail, Dec(w.heap[w.tail].count))
         ELSE Iter(w.tail, it.index)
    ELSE IF it.index > 0
         THEN Iter(it.node, it.index - 1)
         ELSE LET p == w.heap[it.node].prev IN
              IF p # Null THEN Iter(p, Dec(w.heap[p].count))
                          ELSE Iter(p, it.index)

\* operator* of an iterator
Deref(w, it) == elem(w, it.node, it.index)

\* The values a range-for over the container reads: from begin(), ++ until
\* the iterator compares equal to end().  fuel stops a walk that never
\* reaches end().
RECURSIVE IterFrom(_, _, _)
IterFrom(w, it, fuel) ==
    IF it = end(w) \/ fuel = 0 THEN <<>>
    ELSE <<Deref(w, it)>> \o IterFrom(w, Inc(w, it), fuel - 1)

MaxIter == MaxSize + MaxCount + MaxPush + 2
IterSeq(w) == IterFrom(w, begin(w), MaxIter)

\* The positions the same walk visits, in order.
RECURSIVE WalkFrom(_, _, _)
WalkFrom(w, it, fuel) ==
    IF it = end(w) \/ fuel = 0 THEN <<>>
    ELSE <<it>> \o WalkFrom(w, Inc(w, it), fuel - 1)

Walk(w) == WalkFrom(w, begin(w), MaxIter)

\* create_node: allocate and construct a Node; the container with the node
\* and the node's address p.  Which free address the allocator hands out
\* is its own affair: here the lowest free id, and for the second container
\* (arena "other") the highest, so that the two fill the heap from its ends.
FreeIds(w) == {n \in NodeIds : ~w.heap[n].live}
NewId(w) ==
    IF w.arena = "this"
    THEN CHOOSE n \in FreeIds(w) : \A m \in FreeIds(w) : n <= m
    ELSE CHOOSE n \in FreeIds(w) : \A m \in FreeIds(w) : n >= m
create_node(w) ==
    [w |-> [w EXCEPT !.heap[NewId(w)] = [Node EXCEPT !.allocator = w.allocator]],
     p |-> NewId(w)]

\* Storage handed back to the node allocator a second time (count -1 marks
\* it; no node of the program has that count).
TwiceFreed == [FreeNode EXCEPT !.count = -1]

\* destroy_node: ~Node destroys slots [0, count), then the node is freed.
destroy_node(w, p) ==
    [w EXCEPT !.heap[p] = IF @.live THEN FreeNode ELSE TwiceFreed,
              !.work = @ + w.heap[p].count,
              !.misuse = @ \/ \E i \in Slots : /\ i < w.heap[p].count
                                               /\ w.heap[p].data[i] = RAW]

\* ------------------------------------------------- element lifecycle
\* allocator_traits::construct(allocator, node->elem(i), v)
\* data holds w.cap elements: a construction at a higher index writes past
\* the node.
construct_at(w, node, i, v) ==
    IF i < w.cap
    THEN [w EXCEPT !.heap[node].data[i] = v, !.work = @ + 1,
                   !.misuse = @ \/ w.heap[node].data[i] # RAW]
    ELSE [w EXCEPT !.heap[node].overrun = TRUE, !.work = @ + 1]

\* allocator_traits::destroy(allocator, node->elem(i))
destroy_at(w, node, i) ==
    [w EXCEPT !.heap[node].data[i] = RAW, !.work = @ + 1,
              !.misuse = @ \/ elem(w, node, i) = RAW]

\* std::move(*node->elem(i)): the source stays constructed, moved-from.
moved_from(w, node, i) == [w EXCEPT !.heap[node].data[i] = MOVED]

\* --------------------------------------------------------- insertion
\* emplace_into_node_: dataToMove and startIndex of a split.
dataToMove(w) == w.cap \div 2
startIndex(w) == w.cap - dataToMove(w)

\* emplace_into_node_, the loop that moves the back half to newNode:
\* newNode->elem(i) is constructed from std::move(*node->elem(startIndex+i)).
RECURSIVE split_move(_, _, _, _)
split_move(w, node, newNode, i) ==
    IF i < dataToMove(w)
    THEN split_move(
             moved_from(construct_at(w, newNode, i,
                                     elem(w, node, startIndex(w) + i)),
                        node, startIndex(w) + i),
             node, newNode, i + 1)
    ELSE w

\* Faulty variant of set_prev: the back link is left as it was.
set_prev_skipped(w, n, p) == w

\* if (n) n->prev = p
set_prev(w, n, p) == IF n # Null THEN [w EXCEPT !.heap[n].prev = p] ELSE w

\* emplace_into_node_, after the move loop: the counts are set and newNode
\* is linked in after node (tail moves to it when node was the tail).
split_link(w, node, newNode) ==
    set_prev([w EXCEPT !.heap[node].count = startIndex(w),
                       !.heap[newNode].count = dataToMove(w),
                       !.heap[newNode].next = w.heap[node].next,
                       !.heap[newNode].prev = node,
                       !.heap[node].next = newNode,
                       !.tail = IF node = w.tail THEN newNode ELSE @],
             w.heap[node].next, newNode)

\* The split of node into node and the node cn = create_node() made.
split_with(cn, node) ==
    [w |-> split_link(split_move(cn.w, node, cn.p, 0), node, cn.p),
     newNode |-> cn.p]

\* emplace_into_node_, the branch taken when node->count == NodeMaxSize.
split_node(w, node) == split_with(create_node(w), node)

\* Faulty variant of shift_up: the loop stops one round early (i > ptr + 1), so the
\* element at slot ptr is not moved out of the way.
RECURSIVE shift_up_short(_, _, _, _)
shift_up_short(w, node, i, ptr) ==
    IF i > ptr + 1
    THEN shift_up_short(
             destroy_at(construct_at(w, node, i, elem(w, node, i - 1)),
                        node, i - 1),
             node, i - 1, ptr)
    ELSE w

\* emplace_into_node_, the loop that opens slot ptr: for i = count down to
\* ptr + 1, elem(i) is constructed from elem(i - 1), which is destroyed.
RECURSIVE shift_up(_, _, _, _)
shift_up(w, node, i, ptr) ==
    IF i > ptr
    THEN shift_up(destroy_at(construct_at(w, node, i, elem(w, node, i - 1)),
                             node, i - 1),
                  node, i - 1, ptr)
    ELSE w

\* emplace_into_node_, its last statements: the new element is constructed
\* at slot ptr and counted.  throws: the element's constructor throws.
construct_new(w, node, ptr, v, throws) ==
    IF throws
    THEN [w |-> w, ret |-> Iter(Null, 0), exc |-> "ctor"]
    ELSE [w |-> [construct_at(w, node, ptr, v)
                    EXCEPT !.heap[node].count = @ + 1,
                           !.total_size = @ + 1],
          ret |-> Iter(node, ptr), exc |-> "none"]

\* Faulty variant of place: the shift loop starts at total_size instead of
\* node->count.
place_from_size(w, node, ptr, v, throws) ==
    construct_new(shift_up(w, node, w.total_size, ptr),
                  node, ptr, v, throws)

\* emplace_into_node_ from the shift loop on.
place(w, node, ptr, v, throws) ==
    construct_new(shift_up(w, node, w.heap[node].count, ptr),
                  node, ptr, v, throws)

\* Faulty variant of retarget: ptr == node->count goes to the new node too.
retarget_at_count(sp, node, ptr, v, throws) ==
    IF ptr >= sp.w.heap[node].count
    THEN place(sp.w, sp.newNode, ptr - sp.w.heap[node].count, v, throws)
    ELSE place(sp.w, node, ptr, v, throws)

\* emplace_into_node_ after the split sp: if (ptr > node->count) the target
\* becomes the new node.
retarget(sp, node, ptr, v, throws) ==
    IF ptr > sp.w.heap[node].count
    THEN place(sp.w, sp.newNode, ptr - sp.w.heap[node].count, v, throws)
    ELSE place(sp.w, node, ptr, v, throws)

\* emplace_into_node_(node, ptr, args...)
emplace_into_node_(w, node, ptr, v, throws) ==
    IF w.heap[node].count = w.cap
    THEN retarget(split_node(w, node), node, ptr, v, throws)
    ELSE place(w, node, ptr, v, throws)

\* emplace: head = tail = the node cn = create_node() made.
first_node(cn) == [cn.w EXCEPT !.head = cn.p, !.tail = cn.p]

\* Faulty variant of ensure_head: tail gets a node of its own
\* (tail = create_node()).
ensure_head_two(w) ==
    IF w.head = Null
    THEN LET cn == create_node(first_node(create_node(w)))
         IN [cn.w EXCEPT !.tail = cn.p]
    ELSE w

\* emplace: if (!head) { head = create_node(); tail = head; }
ensure_head(w) == IF w.head = Null THEN first_node(create_node(w)) ELSE w

\* Faulty variant of emplace_at: at end() the element goes into head.
emplace_at_head(w, pos, v, throws) ==
    IF pos.node = Null
    THEN emplace_into_node_(w, w.head, w.heap[w.head].count, v, throws)
    ELSE emplace_into_node_(w, pos.node, pos.index, v, throws)

\* emplace, the dispatch on pos.current_node.
emplace_at(w, pos, v, throws) ==
    IF pos.node = Null
    THEN emplace_into_node_(w, w.tail, w.heap[w.tail].count, v, throws)
    ELSE emplace_into_node_(w, pos.node, pos.index, v, throws)

\* emplace(pos, args...)
emplace(w, pos, v, throws) == emplace_at(ensure_head(w), pos, v, throws)

\* Faulty variant of push_back: the element is emplaced at begin().
push_back_at_begin(w, v, throws) == emplace(w, begin(w), v, throws)

\* emplace_back / push_back
push_back(w, v, throws) == emplace(w, end(w), v, throws)

\* push_front
push_front(w, v, throws) == emplace(w, begin(w), v, throws)

\* insert(pos, value)
insert(w, pos, v, throws) == emplace(w, pos, v, throws)

\* create_node when allocate throws: no node is made, nothing is assigned,
\* and the exception leaves the call.
create_node_throws(w) == [w |-> w, ret |-> Iter(Null, 0), exc |-> "bad_alloc"]

\* Faulty variant of emplace_into_node_nomem: node->count is cut to the
\* lower half before the new node is allocated.
emplace_into_node_nomem_late(w, node, ptr, v) ==
    IF w.heap[node].count = w.cap
    THEN create_node_throws(
             [w EXCEPT !.heap[node].count = startIndex(w)])
    ELSE place(w, node, ptr, v, FALSE)

\* emplace_into_node_ with an allocator that has no memory left: the split
\* begins with create_node(), which throws; a node with room takes the
\* element without any allocation.
emplace_into_node_nomem(w, node, ptr, v) ==
    IF w.heap[node].count = w.cap
    THEN create_node_throws(w)
    ELSE place(w, node, ptr, v, FALSE)

\* emplace with an allocator that has no memory left: on an empty list
\* create_node() throws before head is assigned.
emplace_nomem(w, pos, v) ==
    IF w.head = Null THEN create_node_throws(w)
    ELSE IF pos.node = Null
    THEN emplace_into_node_nomem(w, w.tail, w.heap[w.tail].count, v)
    ELSE emplace_into_node_nomem(w, pos.node, pos.index, v)

\* insert(pos, count, value): the loop from its i-th round on; r is the
\* result of the round's insert.
RECURSIVE insert_loop(_, _, _, _, _, _)
RECURSIVE insert_round(_, _, _, _, _)
insert_round(r, firstInserted, i, count, v) ==
    insert_loop(r.w, Inc(r.w, r.ret),
                IF i = 0 THEN r.ret ELSE firstInserted, i + 1, count, v)

insert_loop(w, it, firstInserted, i, count, v) ==
    IF i < count
    THEN insert_round(insert(w, it, v, FALSE), firstInserted, i, count, v)
    ELSE [w |-> w, ret |-> firstInserted, exc |-> "none"]

insert_n(w, pos, count, v) ==
    insert_loop(w, Iter(pos.node, pos.index), Iter(pos.node, pos.index),
                0, count, v)

\* ----------------------------------------------------------- erasure
\* Faulty variant of remove_node: removing the only node resets head alone.
remove_node_tail_kept(w, node) ==
    IF w.head = w.tail
    THEN [w |-> [destroy_node(w, node) EXCEPT !.head = Null],
          ret |-> Iter(Null, 0)]
    ELSE IF node = w.head
    THEN [w |-> destroy_node(
                    [w EXCEPT !.head = w.heap[node].next,
                              !.heap[w.heap[node].next].prev = Null],
                    node),
          ret |-> Iter(w.heap[node].next, 0)]
    ELSE IF node = w.tail
    THEN [w |-> destroy_node(
                    [w EXCEPT !.tail = w.heap[node].prev,
                              !.heap[w.heap[node].prev].next = Null],
                    node),
          ret |-> Iter(Null, 0)]
    ELSE [w |-> destroy_node(
                    [w EXCEPT
                       !.heap[w.heap[node].prev].next = w.heap[node].next,
                       !.heap[w.heap[node].next].prev = w.heap[node].prev],
                    node),
          ret |-> Iter(w.heap[node].next, 0)]

\* remove_node(node): unlink and destroy a node; the iterator it returns.
remove_node(w, node) ==
    IF w.head = w.tail
    THEN [w |-> [destroy_node(w, node) EXCEPT !.head = Null, !.tail = Null],
          ret |-> Iter(Null, 0)]
    ELSE IF node = w.head
    THEN [w |-> destroy_node(
                    [w EXCEPT !.head = w.heap[node].next,
                              !.heap[w.heap[node].next].prev = Null],
                    node),
          ret |-> Iter(w.heap[node].next, 0)]
    ELSE IF node = w.tail
    THEN [w |-> destroy_node(
                    [w EXCEPT !.tail = w.heap[node].prev,
                              !.heap[w.heap[node].prev].next = Null],
                    node),
          ret |-> Iter(Null, 0)]
    ELSE [w |-> destroy_node(
                    [w EXCEPT
                       !.heap[w.heap[node].prev].next = w.heap[node].next,
                       !.heap[w.heap[node].next].prev = w.heap[node].prev],
                    node),
          ret |-> Iter(w.heap[node].next, 0)]

\* normalize_node(p, from, shift): the loop from index i on.
RECURSIVE normalize_loop(_, _, _, _)
normalize_loop(w, p, i, shift) ==
    IF i < w.heap[p].count
    THEN normalize_loop(
             destroy_at(construct_at(w, p, i - shift, elem(w, p, i)), p, i),
             p, i + 1, shift)
    ELSE w

\* Faulty variant of normalize_node: the loop starts one slot late (from + 1).
normalize_node_late(w, p, from, shift) ==
    IF shift = 0 THEN w ELSE normalize_loop(w, p, from + 1, shift)

normalize_node(w, p, from, shift) ==
    IF shift = 0 THEN w ELSE normalize_loop(w, p, from, shift)

\* erase: for (i = from; i < to; ++i) destroy(elem(i)), ++erasedCount.
RECURSIVE destroy_range(_, _, _, _)
destroy_range(w, node, i, to) ==
    IF i < to THEN destroy_range(destroy_at(w, node, i), node, i + 1, to)
    ELSE w

\* The rounds a loop for (i = from; i < to; ++i) makes.
Rounds(from, to) == IF from < to THEN to - from ELSE 0

\* erase: return remove_node(...)
removed(r) == [w |-> r.w, ret |-> r.ret, exc |-> "none"]

\* erase, same-node case: count and total_size go down by erasedCount.
uncount(w, node, erasedCount) ==
    [w EXCEPT !.heap[node].count = @ - erasedCount,
              !.total_size = @ - erasedCount]

\* Faulty variant of finish_same: a node left under-full takes over the
\* elements of its successor when they fit, and the successor is removed.
finish_same_merged(w, start_node, start_index) ==
    IF w.heap[start_node].count = 0
    THEN removed(remove_node(w, start_node))
    ELSE LET m == w.heap[start_node].next
             c == w.heap[start_node].count
         IN IF m # Null /\ c + w.heap[m].count <= w.cap
            THEN [w |-> remove_node(
                            [w EXCEPT
                               !.heap[start_node].data =
                                   [i \in Slots |->
                                       IF i >= c /\ i < c + w.heap[m].count
                                       THEN w.heap[m].data[i - c] ELSE @[i]],
                               !.heap[start_node].count = c + w.heap[m].count,
                               !.heap[m].count = 0],
                            m).w,
                  ret |-> Iter(start_node, start_index), exc |-> "none"]
            ELSE [w |-> w, ret |-> Iter(start_node, start_index),
                  exc |-> "none"]

\* erase, same-node case, the end: an emptied node is removed.
finish_same(w, start_node, start_index) ==
    IF w.heap[start_node].count = 0
    THEN removed(remove_node(w, start_node))
    ELSE [w |-> w, ret |-> Iter(start_node, start_index), exc |-> "none"]

\* erase, the case start_node == end_node.
erase_same(w, node, start_index, end_index) ==
    finish_same(
        uncount(normalize_node(destroy_range(w, node, start_index, end_index),
                               node, end_index,
                               Rounds(start_index, end_index)),
                node, Rounds(start_index, end_index)),
        node, start_index)

\* erase, cross-node case: the first node is cut down to start_index.
truncate_first(w, start_node, start_index) ==
    [destroy_range(w, start_node, start_index, w.heap[start_node].count)
        EXCEPT !.heap[start_node].count = start_index]

\* Faulty variant of drop_first: an emptied first node stays in the chain.
drop_first_kept(w, start_node) == w

\* erase, cross-node case: if (start_node->count == 0) remove_node(start_node)
drop_first(w, start_node) ==
    IF w.heap[start_node].count = 0 THEN remove_node(w, start_node).w ELSE w

\* Faulty variant of erase_between: the elements of the removed nodes are destroyed
\* but not added to erasedCount.
RECURSIVE erase_between_uncounted(_, _, _, _)
erase_between_uncounted(w, cur, end_node, erasedCount) ==
    IF cur # Null /\ cur # end_node
    THEN erase_between_uncounted(
             remove_node(destroy_range(w, cur, 0, w.heap[cur].count), cur).w,
             w.heap[cur].next, end_node, erasedCount)
    ELSE [w |-> w, erasedCount |-> erasedCount]

\* erase, the loop over the nodes strictly between start_node and end_node:
\* the container after it and the elements counted so far.
RECURSIVE erase_between(_, _, _, _)
erase_between(w, cur, end_node, erasedCount) ==
    IF cur # Null /\ cur # end_node
    THEN erase_between(
             remove_node(destroy_range(w, cur, 0, w.heap[cur].count), cur).w,
             w.heap[cur].next, end_node,
             erasedCount + Rounds(0, w.heap[cur].count))
    ELSE [w |-> w, erasedCount |-> erasedCount]

\* erase, cross-node case: end_node loses its first end_index elements and
\* total_size the elements counted.
uncount_last(w, end_node, end_index, erasedCount) ==
    [w EXCEPT !.heap[end_node].count = @ - end_index,
              !.total_size = @ - erasedCount]

\* Faulty variant of finish_cross: an emptied end_node stays in the chain.
finish_cross_kept(w, end_node) ==
    [w |-> w, ret |-> Iter(end_node, 0), exc |-> "none"]

\* erase, cross-node case, the end: an emptied end_node is removed.
finish_cross(w, end_node) ==
    IF w.heap[end_node].count = 0
    THEN removed(remove_node(w, end_node))
    ELSE [w |-> w, ret |-> Iter(end_node, 0), exc |-> "none"]

\* erase, cross-node case, from the end node on; mid is the container and
\* erasedCount after the loop over the nodes in between.
erase_last(mid, end_node, end_index) ==
    finish_cross(
        uncount_last(normalize_node(destroy_range(mid.w, end_node, 0,
                                                  end_index),
                                    end_node, end_index, end_index),
                     end_node, end_index,
                     mid.erasedCount + Rounds(0, end_index)),
        end_node)

\* erase, cross-node case, after the first node was cut down (w): cur is
\* read, the first node dropped if empty, the nodes in between removed.
erase_rest(w, start_node, end_node, end_index, erasedCount) ==
    erase_last(erase_between(drop_first(w, start_node),
                             w.heap[start_node].next, end_node, erasedCount),
               end_node, end_index)

\* erase, the case start_node != end_node.
erase_cross(w, start_node, start_index, end_node, end_index) ==
    erase_rest(truncate_first(w, start_node, start_index),
               start_node, end_node, end_index,
               Rounds(start_index, w.heap[start_node].count))

\* erase, with the null iterators resolved to nodes and indices.
erase_resolved(w, start_node, start_index, end_node, end_index) ==
    IF start_node = end_node
    THEN erase_same(w, start_node, start_index, end_index)
    ELSE erase_cross(w, start_node, start_index, end_node, end_index)

\* Faulty variant of erase: the early return tests only total_size == 0, not
\* first == last.
erase_unguarded(w, first, last) ==
    IF w.total_size = 0
    THEN [w |-> w, ret |-> Iter(first.node, first.index), exc |-> "none"]
    ELSE erase_resolved(
             w,
             IF first.node = Null THEN w.head ELSE first.node,
             IF first.node = Null THEN 0 ELSE first.index,
             IF last.node = Null THEN w.tail ELSE last.node,
             IF last.node = Null THEN w.heap[w.tail].count ELSE last.index)

\* erase(first, last)
erase(w, first, last) ==
    IF first = last \/ w.total_size = 0
    THEN [w |-> w, ret |-> Iter(first.node, first.index), exc |-> "none"]
    ELSE erase_resolved(
             w,
             IF first.node = Null THEN w.head ELSE first.node,
             IF first.node = Null THEN 0 ELSE first.index,
             IF last.node = Null THEN w.tail ELSE last.node,
             IF last.node = Null THEN w.heap[w.tail].count ELSE last.index)

\* erase(pos)
erase_pos(w, pos) == erase(w, pos, Inc(w, pos))

\* Faulty variant of pop_back: an empty container is reported as out_of_range.
pop_back_checked(w) ==
    IF w.tail = Null
    THEN [w |-> w, ret |-> Iter(Null, 0), exc |-> "out_of_range"]
    ELSE erase_pos(w, IterDec(w, end(w)))

\* pop_back
pop_back(w) == erase_pos(w, IterDec(w, end(w)))

\* pop_front
pop_front(w) == erase_pos(w, begin(w))

\* Faulty variant of subscript_loop: a node is passed over only while
\* cnt + node->count < index.
RECURSIVE subscript_loop_over(_, _, _, _)
subscript_loop_over(w, node, cnt, index) ==
    IF node # Null /\ cnt + w.heap[node].count < index
    THEN subscript_loop_over(w, w.heap[node].next,
                             cnt + w.heap[node].count, index)
    ELSE elem(w, node, index - cnt)

\* operator[], the loop from node on with cnt elements passed over, and
\* the element read after it.
RECURSIVE subscript_loop(_, _, _, _)
subscript_loop(w, node, cnt, index) ==
    IF node # Null /\ cnt + w.heap[node].count <= index
    THEN subscript_loop(w, w.heap[node].next,
                        cnt + w.heap[node].count, index)
    ELSE elem(w, node, index - cnt)

\* operator[](index)
subscript(w, index) == subscript_loop(w, w.head, 0, index)

\* Faulty variant of clear_loop: the loop stops at the tail node.
RECURSIVE clear_loop_short(_, _)
clear_loop_short(w, cur) ==
    IF cur # Null /\ cur # w.tail
    THEN clear_loop_short(destroy_node(w, cur), w.heap[cur].next)
    ELSE w

\* clear, the loop from node cur on.
RECURSIVE clear_loop(_, _)
clear_loop(w, cur) ==
    IF cur # Null
    THEN clear_loop(destroy_node(w, cur), w.heap[cur].next)
    ELSE w

clear(w) ==
    [clear_loop(w, w.head) EXCEPT !.head = Null, !.tail = Null,
                                  !.total_size = 0]

\* ------------------------------------------------------ element access
\* Faulty variant of front: no test for an empty list.
front_unchecked(w) == [val |-> elem(w, w.head, 0), exc |-> "none"]

\* front(): the value read, or the exception thrown.
front(w) ==
    IF w.head = Null THEN [val |-> RAW, exc |-> "out_of_range"]
    ELSE [val |-> elem(w, w.head, 0), exc |-> "none"]

\* Faulty variant of back: reads slot count instead of slot count - 1.
back_past(w) ==
    IF w.tail = Null THEN [val |-> RAW, exc |-> "out_of_range"]
    ELSE [val |-> elem(w, w.tail, w.heap[w.tail].count), exc |-> "none"]

\* back()
back(w) ==
    IF w.tail = Null THEN [val |-> RAW, exc |-> "out_of_range"]
    ELSE [val |-> elem(w, w.tail, Dec(w.heap[w.tail].count)),
          exc |-> "none"]


\* ------------------------------------- construction, assignment, equality
\* Two containers live in one heap: a container is [heap, head, tail,
\* total_size] with its own three members and the heap they share.

\* A constructor or assignment that is not made to fail.
NoFail == -1

\* One fewer construction / allocation may succeed before the failure.
Less(budget) == IF budget > 0 THEN budget - 1 ELSE budget

\* Faulty variant of copy_elems: the node's elements are copied in reverse
\* order.
RECURSIVE copy_elems_reversed(_, _, _, _, _)
copy_elems_reversed(w, cur, new_node, i, budget) ==
    IF i < w.heap[cur].count
    THEN IF budget = 0
         THEN [w |-> w, budget |-> budget, exc |-> "ctor"]
         ELSE copy_elems_reversed(
                  construct_at(w, new_node, i,
                               elem(w, cur, w.heap[cur].count - 1 - i)),
                  cur, new_node, i + 1, Less(budget))
    ELSE [w |-> w, budget |-> budget, exc |-> "none"]

\* unrolled_list(const unrolled_list&), the element loop from index i on:
\* new_node->elem(i) is copy-constructed from *cur->elem(i).  budget is the
\* number of constructions that succeed before one throws (NoFail: all).
RECURSIVE copy_elems(_, _, _, _, _)
copy_elems(w, cur, new_node, i, budget) ==
    IF i < w.heap[cur].count
    THEN IF budget = 0
         THEN [w |-> w, budget |-> budget, exc |-> "ctor"]
         ELSE copy_elems(construct_at(w, new_node, i, elem(w, cur, i)),
                         cur, new_node, i + 1, Less(budget))
    ELSE [w |-> w, budget |-> budget, exc |-> "none"]

\* Copy constructor: tail->next = new_node when there is a tail.
set_next(w, n, p) == IF n # Null THEN [w EXCEPT !.heap[n].next = p] ELSE w

\* Faulty variant of copy_link: head is left pointing at the source's node.
copy_link_shared(w, new_node, cur) ==
    [set_next(w, w.tail, new_node)
        EXCEPT !.heap[new_node].count = w.heap[cur].count,
               !.heap[new_node].prev = w.tail,
               !.head = IF w.tail = Null THEN cur ELSE w.head,
               !.tail = new_node,
               !.total_size = @ + w.heap[cur].count]

\* Copy constructor: new_node gets cur's count, is linked behind tail (or
\* becomes head and tail) and its elements are added to total_size.
copy_link(w, new_node, cur) ==
    [set_next(w, w.tail, new_node)
        EXCEPT !.heap[new_node].count = w.heap[cur].count,
               !.heap[new_node].prev = w.tail,
               !.head = IF w.tail = Null THEN new_node ELSE w.head,
               !.tail = new_node,
               !.total_size = @ + w.heap[cur].count]

\* Copy constructor, the loop over the source's nodes from cur on.  allocs
\* is the number of allocations that succeed before one fails (NoFail: all).
RECURSIVE copy_loop(_, _, _, _)
RECURSIVE copy_after(_, _, _, _)
copy_after(ce, cur, new_node, allocs) ==
    IF ce.exc # "none"
    THEN [w |-> ce.w, exc |-> ce.exc]
    ELSE copy_loop(copy_link(ce.w, new_node, cur), ce.w.heap[cur].next,
                   ce.budget, allocs)

copy_node(cn, cur, budget, allocs) ==
    copy_after(copy_elems(cn.w, cur, cn.p, 0, budget), cur, cn.p, allocs)

copy_loop(w, cur, budget, allocs) ==
    IF cur = Null THEN [w |-> w, exc |-> "none"]
    ELSE IF allocs = 0 THEN [w |-> w, exc |-> "bad_alloc"]
    ELSE copy_node(create_node(w), cur, budget, Less(allocs))

\* A container of arena a under construction, in heap h: no members set.
Fresh(h, a) == [heap |-> h, head |-> Null, tail |-> Null, total_size |-> 0,
                arena |-> a, work |-> 0, cap |-> NodeMaxSize,
                misuse |-> FALSE, allocator |-> a]

\* unrolled_list(const unrolled_list& other), constructing n: the new
\* container (in the heap as the copy left it) and the exception raised.
\* After an exception there is no new container; the nodes built so far
\* stay allocated.
copy_construct(n, o, budget, allocs) == copy_loop(n, o.head, budget, allocs)

\* Container w with no members: head = tail = nullptr, total_size = 0.
Emptied(w) == [w EXCEPT !.head = Null, !.tail = Null, !.total_size = 0]

\* Container w, in heap h, with the members of container c.
Holding(w, h, c) ==
    [w EXCEPT !.heap = h, !.head = c.head, !.tail = c.tail,
              !.total_size = c.total_size]

\* unrolled_list(unrolled_list&& other), constructing n: the new container
\* and other after.
move_construct(n, o) == [w |-> Holding(n, o.heap, o), other |-> Emptied(o)]

\* Faulty variant of move_take: the source keeps its members.
move_take_shared(c, o) ==
    [w |-> Holding(c, c.heap, o), other |-> Holding(o, c.heap, o)]

\* operator=(unrolled_list&&) after clear() gave c: the members of other
\* are taken and other is emptied.
move_take(c, o) ==
    [w |-> Holding(c, c.heap, o), other |-> Emptied(Holding(o, c.heap, o))]

\* operator=(unrolled_list&& other); same: this == &other.
move_assign(w, o, same) ==
    IF same THEN [w |-> w, other |-> w] ELSE move_take(clear(w), o)

\* swap(other): the members change places (w and o are in one heap).
swap(w, o) == [w |-> Holding(w, w.heap, o), other |-> Holding(o, w.heap, w)]

\* ~unrolled_list()
destruct(w) == clear(w)

\* operator=(const unrolled_list&) once tmp is built: swap(tmp), then tmp
\* (holding the old nodes of this) is destroyed.
destroy_tmp(sw) ==
    [w |-> Holding(sw.w, destruct(sw.other).heap, sw.w), exc |-> "none"]

swap_tmp(w, tmp) == destroy_tmp(swap(Holding(w, tmp.heap, w), tmp))

\* Faulty variant of copy_built: a failed copy empties the target.
copy_built_cleared(w, t) ==
    IF t.exc # "none"
    THEN [w |-> Emptied(Holding(w, t.w.heap, w)), exc |-> t.exc]
    ELSE swap_tmp(w, t.w)

\* operator=(const unrolled_list&) after unrolled_list tmp(other) gave t.
copy_built(w, t) ==
    IF t.exc # "none"
    THEN [w |-> Holding(w, t.w.heap, w), exc |-> t.exc]
    ELSE swap_tmp(w, t.w)

\* operator=(const unrolled_list& other); same: this == &other.  The local
\* unrolled_list tmp is a container of its own in the heap of w: its nodes
\* are bound to tmp.allocator.
copy_assign(w, o, same, budget, allocs) ==
    IF same THEN [w |-> w, exc |-> "none"]
    ELSE copy_built(w, copy_construct([Fresh(w.heap, w.arena)
                                          EXCEPT !.allocator = "tmp"],
                                      o, budget, allocs))

\* std::equal(first1, end(), first2)
RECURSIVE std_equal(_, _, _, _, _)
std_equal(w, it, o, jt, fuel) ==
    IF it = end(w) \/ fuel = 0 THEN TRUE
    ELSE IF Deref(w, it) # Deref(o, jt) THEN FALSE
    ELSE std_equal(w, Inc(w, it), o, Inc(o, jt), fuel - 1)

\* Faulty variant of equal: the sizes are not compared.
equal_unsized(w, o, same) ==
    IF same THEN TRUE
    ELSE std_equal(w, begin(w), o, begin(o), MaxIter)

\* operator==(const unrolled_list& other); same: this == &other.
equal(w, o, same) ==
    IF same THEN TRUE
    ELSE IF size(w) # size(o) THEN FALSE
    ELSE std_equal(w, begin(w), o, begin(o), MaxIter)


\* ===================================================== state machine
VARIABLES
    heap,        \* node storage: node id -> Node, FreeNode where none lives
    head,        \* unrolled_list::head
    tail,        \* unrolled_list::tail
    total_size,  \* unrolled_list::total_size
    ref,         \* the same calls applied to a plain sequence
    lastOp,      \* the observed call: name, arguments, exception (or NoCall)
    ret,         \* the iterator the observed call returned
    pre,         \* <<this, other>> as they were before the observed call
    scen,        \* push/pop scenario: phase and the calls made so far
    other,       \* a second container in the same heap: whether it lives,
                 \* the constructor that made it, its head, tail, total_size
    refOther,    \* the calls made on other, applied to a plain sequence
    on,          \* the containers of the observed call: this and argument
    nodeMax,     \* the NodeMaxSize the containers are instantiated with
    dummy        \* sentinel draft: unrolled_list::dummy (Null elsewhere)

vars == <<heap, head, tail, total_size, ref, ret, lastOp, pre, scen,
          other, refOther, on, nodeMax, dummy>>

\* The container object.
World == [heap |-> heap, head |-> head, tail |-> tail,
          total_size |-> total_size, arena |-> "this", work |-> 0,
          cap |-> nodeMax, misuse |-> FALSE, allocator |-> "this"]

\* The nodes reachable from head by next, in order.
RECURSIVE ChainFrom(_, _, _)
ChainFrom(w, n, fuel) ==
    IF n = Null \/ fuel = 0 THEN <<>>
    ELSE <<n>> \o ChainFrom(w, w.heap[n].next, fuel - 1)

Chain(w) == ChainFrom(w, w.head, MaxNodes + 1)

ChainNodes(w) == {Chain(w)[k] : k \in 1..Len(Chain(w))}

\* The iterators that designate an element.
Positions(w) ==
    {Iter(n, i) : n \in ChainNodes(w), i \in Slots} \cap
    {it \in [node : NodeIds, index : Slots] : it.index < w.heap[it.node].count}

RECURSIVE SumCounts(_, _, _)
SumCounts(w, ch, k) ==
    IF k = 0 THEN 0 ELSE w.heap[ch[k]].count + SumCounts(w, ch, k - 1)

\* The number of elements that precede position it (end(): all of them).
Offset(w, it) ==
    LET ch == Chain(w)
    IN IF it.node = Null THEN SumCounts(w, ch, Len(ch))
       ELSE LET k == CHOOSE j \in 1..Len(ch) : ch[j] = it.node
            IN SumCounts(w, ch, k - 1) + it.index

InsertAt(s, at, v) == SubSeq(s, 1, at) \o <<v>> \o SubSeq(s, at + 1, Len(s))
InsertCopies(s, at, n, v) ==
    SubSeq(s, 1, at) \o [i \in 1..n |-> v] \o SubSeq(s, at + 1, Len(s))
RemoveRange(s, a, b) == SubSeq(s, 1, a) \o SubSeq(s, b + 1, Len(s))

\* The second container.
OtherWorld == [heap |-> heap, head |-> other.head, tail |-> other.tail,
               total_size |-> other.total_size, arena |-> "other",
               work |-> 0, cap |-> nodeMax, misuse |-> FALSE,
               allocator |-> "other"]

NoOther == [live |-> FALSE, made |-> "none",
            head |-> Null, tail |-> Null, total_size |-> 0]

Sides == {"this", "other"}
On(s, arg) == [this |-> s, arg |-> arg]

\* A call as lastOp records it: first and last the iterators passed, at the
\* number of elements before first, n the element count of the call, v the
\* value passed (or read).
Call(op, exc, first, last, at, n, v) ==
    [op |-> op, exc |-> exc, first |-> first, last |-> last,
     at |-> at, n |-> n, v |-> v]

NoCall == Call("none", "none", Iter(Null, 0), Iter(Null, 0), 0, 0, 0)

NoScen == [phase |-> "free", n |-> 0, kf |-> 0, kb |-> 0]

\* emplace allocates: the first node, or the new node of a split.
NeedsNode(w, pos) ==
    \/ w.head = Null
    \/ w.heap[IF pos.node = Null THEN w.tail ELSE pos.node].count = w.cap

CanEmplace(w, pos) ==
    /\ w.total_size < MaxSize
    /\ NeedsNode(w, pos) => FreeIds(w) # {}

\* The state after the call op(first, last / n, v), made at offset at, with
\* result r = [w, ret, exc].  An observed call (obs) is recorded with its
\* arguments, its result and the container it was made on, and the run is
\* followed no further; the same call unobserved leaves lastOp, ret and pre
\* as they are.
CommitOn(s, r, op, first, last, at, n, v, newRef, obs) ==
    /\ heap' = r.w.heap
    /\ IF s = "this"
       THEN /\ head' = r.w.head
            /\ tail' = r.w.tail
            /\ total_size' = r.w.total_size
            /\ ref' = IF r.exc = "none" THEN newRef ELSE ref
            /\ UNCHANGED <<other, refOther>>
       ELSE /\ other' = [other EXCEPT !.head = r.w.head,
                                      !.tail = r.w.tail,
                                      !.total_size = r.w.total_size]
            /\ refOther' = IF r.exc = "none" THEN newRef ELSE refOther
            /\ UNCHANGED <<head, tail, total_size, ref>>
    /\ IF obs
       THEN /\ lastOp' = Call(op, r.exc, first, last, at, n, v)
            /\ ret' = r.ret
            /\ pre' = <<World, OtherWorld>>
            /\ on' = On(s, "none")
       ELSE UNCHANGED <<lastOp, ret, pre, on>>

\* A call on the container itself.
Commit(r, op, first, last, at, n, v, newRef, obs) ==
    CommitOn("this", r, op, first, last, at, n, v, newRef, obs)

\* Calls are made while no call is under observation and no construction
\* has written past a node.
Running ==
    /\ lastOp = NoCall /\ scen.phase = "free"
    /\ \A n \in NodeIds : ~heap[n].overrun

Init ==
    /\ heap = EmptyList.heap
    /\ head = EmptyList.head
    /\ tail = EmptyList.tail
    /\ total_size = EmptyList.total_size
    /\ ref = <<>>
    /\ lastOp = NoCall
    /\ ret = Iter(Null, 0)
    /\ pre = <<>>
    /\ scen = NoScen
    /\ other = NoOther
    /\ refOther = <<>>
    /\ on = On("none", "none")
    /\ nodeMax = NodeMaxSize
    /\ dummy = Null

PushBack(v, throws, obs) ==
    /\ Running
    /\ throws => obs
    /\ CanEmplace(World, end(World))
    /\ Commit(push_back(World, v, throws), "push_back",
              end(World), end(World), Len(ref), 1, v, Append(ref, v), obs)
    /\ UNCHANGED <<scen, nodeMax, dummy>>

PushFront(v, throws, obs) ==
    /\ Running
    /\ throws => obs
    /\ CanEmplace(World, begin(World))
    /\ Commit(push_front(World, v, throws), "push_front",
              begin(World), begin(World), 0, 1, v, <<v>> \o ref, obs)
    /\ UNCHANGED <<scen, nodeMax, dummy>>

Insert(pos, v, throws, obs) ==
    /\ Running
    /\ throws => obs
    /\ CanEmplace(World, pos)
    /\ Commit(insert(World, pos, v, throws), "insert",
              pos, pos, Offset(World, pos), 1, v,
              InsertAt(ref, Offset(World, pos), v), obs)
    /\ UNCHANGED <<scen, nodeMax, dummy>>

InsertN(pos, count, v, obs) ==
    /\ Running
    /\ total_size + count <= MaxSize
    /\ Cardinality(FreeIds(World)) >= count
    /\ Commit(insert_n(World, pos, count, v), "insert_n",
              pos, pos, Offset(World, pos), count, v,
              InsertCopies(ref, Offset(World, pos), count, v), obs)
    /\ UNCHANGED <<scen, nodeMax, dummy>>

Erase(pos, obs) ==
    /\ Running
    /\ Commit(erase_pos(World, pos), "erase",
              pos, Inc(World, pos), Offset(World, pos), 1, 0,
              RemoveRange(ref, Offset(World, pos), Offset(World, pos) + 1),
              obs)
    /\ UNCHANGED <<scen, nodeMax, dummy>>

EraseRange(first, last, obs) ==
    /\ Running
    /\ Offset(World, first) <= Offset(World, last)
    /\ Commit(erase(World, first, last), "erase_range",
              first, last, Offset(World, first),
              Offset(World, last) - Offset(World, first), 0,
              RemoveRange(ref, Offset(World, first), Offset(World, last)),
              obs)
    /\ UNCHANGED <<scen, nodeMax, dummy>>

PopBack(obs) ==
    /\ Running
    /\ Commit(pop_back(World), "pop_back",
              end(World), end(World), Len(ref), 1, 0,
              SubSeq(ref, 1, Len(ref) - 1), obs)
    /\ UNCHANGED <<scen, nodeMax, dummy>>

PopFront(obs) ==
    /\ Running
    /\ Commit(pop_front(World), "pop_front",
              begin(World), begin(World), 0, 1, 0,
              SubSeq(ref, 2, Len(ref)), obs)
    /\ UNCHANGED <<scen, nodeMax, dummy>>

\* front() / back() read the container and leave it as it is.
Read(w, r) == [w |-> w, ret |-> Iter(Null, 0), exc |-> r.exc]

Front ==
    /\ Running
    /\ Commit(Read(World, front(World)), "front",
              begin(World), begin(World), 0, 0, front(World).val, ref, TRUE)
    /\ UNCHANGED <<scen, nodeMax, dummy>>

Back ==
    /\ Running
    /\ Commit(Read(World, back(World)), "back",
              end(World), end(World), Len(ref), 0, back(World).val, ref, TRUE)
    /\ UNCHANGED <<scen, nodeMax, dummy>>

\* operator[](index) for an index below size(): the value read is recorded.
Subscript(index) ==
    /\ Running
    /\ Commit([w |-> World, ret |-> Iter(Null, 0), exc |-> "none"],
              "subscript", begin(World), begin(World), index, 0,
              subscript(World, index), ref, TRUE)
    /\ UNCHANGED <<scen, nodeMax, dummy>>

\* A walk from begin() by ++ up to end(): what is returned is the sequence
\* of positions visited.
Traverse ==
    /\ Running
    /\ Commit([w |-> World, ret |-> Walk(World), exc |-> "none"],
              "traverse", begin(World), end(World), 0, Len(Walk(World)), 0,
              ref, TRUE)
    /\ UNCHANGED <<scen, nodeMax, dummy>>

\* ++it on an iterator of the container.
Increment(it) ==
    /\ Running
    /\ Commit([w |-> World, ret |-> Inc(World, it), exc |-> "none"],
              "increment", it, it, Offset(World, it), 0, 0, ref, TRUE)
    /\ UNCHANGED <<scen, nodeMax, dummy>>

\* --it on an iterator of the container.
Decrement(it) ==
    /\ Running
    /\ Commit([w |-> World, ret |-> IterDec(World, it), exc |-> "none"],
              "decrement", it, it, Offset(World, it), 0, 0, ref, TRUE)
    /\ UNCHANGED <<scen, nodeMax, dummy>>

Clear(obs) ==
    /\ Running
    /\ Commit([w |-> clear(World), ret |-> Iter(Null, 0), exc |-> "none"],
              "clear", Iter(Null, 0), Iter(Null, 0), 0, Len(ref), 0,
              <<>>, obs)
    /\ UNCHANGED <<scen, nodeMax, dummy>>

AllPositions == Positions(World) \cup {end(World)}

Next ==
    \/ \E v \in Values, obs \in BOOLEAN : PushBack(v, FALSE, obs)
    \/ \E v \in Values, obs \in BOOLEAN : PushFront(v, FALSE, obs)
    \/ \E pos \in AllPositions, v \in Values, obs \in BOOLEAN :
          Insert(pos, v, FALSE, obs)
    \/ \E pos \in AllPositions, count \in 0..MaxCount, v \in Values,
          obs \in BOOLEAN : InsertN(pos, count, v, obs)
    \/ \E pos \in Positions(World), obs \in BOOLEAN : Erase(pos, obs)
    \/ \E first \in AllPositions, last \in AllPositions, obs \in BOOLEAN :
          EraseRange(first, last, obs)
    \/ \E obs \in BOOLEAN : PopBack(obs)
    \/ \E obs \in BOOLEAN : PopFront(obs)
    \/ Front
    \/ Back
    \/ \E obs \in BOOLEAN : Clear(obs)
    \/ Traverse
    \/ \E it \in AllPositions : Increment(it)
    \/ \E it \in AllPositions : Decrement(it)
    \/ \E index \in 0..(total_size - 1) : Subscript(index)

Spec == Init /\ [][Next]_vars

\* The same calls on a list instantiated with any NodeMaxSize from 1 up.
InitSizes ==
    /\ heap = EmptyList.heap
    /\ head = EmptyList.head
    /\ tail = EmptyList.tail
    /\ total_size = EmptyList.total_size
    /\ ref = <<>>
    /\ lastOp = NoCall
    /\ ret = Iter(Null, 0)
    /\ pre = <<>>
    /\ scen = NoScen
    /\ other = NoOther
    /\ refOther = <<>>
    /\ on = On("none", "none")
    /\ nodeMax \in 1..NodeMaxSize
    /\ dummy = Null

SpecSizes == InitSizes /\ [][Next]_vars

\* push_back, push_front and insert(pos, value) made when the allocator
\* has no memory left.
PushBackNoMem(v) ==
    /\ Running
    /\ total_size < MaxSize
    /\ Commit(emplace_nomem(World, end(World), v), "push_back",
              end(World), end(World), Len(ref), 1, v, Append(ref, v), TRUE)
    /\ UNCHANGED <<scen, nodeMax, dummy>>

PushFrontNoMem(v) ==
    /\ Running
    /\ total_size < MaxSize
    /\ Commit(emplace_nomem(World, begin(World), v), "push_front",
              begin(World), begin(World), 0, 1, v, <<v>> \o ref, TRUE)
    /\ UNCHANGED <<scen, nodeMax, dummy>>

InsertNoMem(pos, v) ==
    /\ Running
    /\ total_size < MaxSize
    /\ Commit(emplace_nomem(World, pos, v), "insert",
              pos, pos, Offset(World, pos), 1, v,
              InsertAt(ref, Offset(World, pos), v), TRUE)
    /\ UNCHANGED <<scen, nodeMax, dummy>>

\* The same calls, with element constructors that may throw and node
\* allocations that may fail.
NextExc ==
    \/ Next
    \/ \E v \in Values : PushBackNoMem(v)
    \/ \E v \in Values : PushFrontNoMem(v)
    \/ \E pos \in AllPositions, v \in Values : InsertNoMem(pos, v)
    \/ \E v \in Values : PushBack(v, TRUE, TRUE)
    \/ \E v \in Values : PushFront(v, TRUE, TRUE)
    \/ \E pos \in AllPositions, v \in Values : Insert(pos, v, TRUE, TRUE)

SpecExc == Init /\ [][NextExc]_vars


\* ------------------------------------------------- push/pop scenario
\* The demonstration program: push_back of 1, 2, ..., n onto an empty
\* list, then pop_front / pop_back calls.  A push_back whose element
\* constructor throws ends the scenario.
InitPushPop ==
    /\ heap = EmptyList.heap
    /\ head = EmptyList.head
    /\ tail = EmptyList.tail
    /\ total_size = EmptyList.total_size
    /\ ref = <<>>
    /\ lastOp = NoCall
    /\ ret = Iter(Null, 0)
    /\ pre = <<>>
    /\ scen = [phase |-> "push", n |-> 0, kf |-> 0, kb |-> 0]
    /\ other = NoOther
    /\ refOther = <<>>
    /\ on = On("none", "none")
    /\ nodeMax = NodeMaxSize
    /\ dummy = Null

ScenCommit(r, newRef) ==
    /\ heap' = r.w.heap
    /\ head' = r.w.head
    /\ tail' = r.w.tail
    /\ total_size' = r.w.total_size
    /\ ref' = IF r.exc = "none" THEN newRef ELSE ref
    /\ UNCHANGED <<lastOp, ret, pre, other, refOther, on, nodeMax, dummy>>

ScenPushBack(throws) ==
    /\ scen.phase = "push"
    /\ scen.n < MaxPush
    /\ NeedsNode(World, end(World)) => FreeIds(World) # {}
    /\ ScenCommit(push_back(World, scen.n + 1, throws),
                  Append(ref, scen.n + 1))
    /\ scen' = IF throws THEN [scen EXCEPT !.phase = "thrown"]
                         ELSE [scen EXCEPT !.n = @ + 1]

ScenPopFront ==
    /\ scen.phase \in {"push", "pop"}
    /\ scen.kf + scen.kb < scen.n
    /\ ScenCommit(pop_front(World), SubSeq(ref, 2, Len(ref)))
    /\ scen' = [scen EXCEPT !.phase = "pop", !.kf = @ + 1]

ScenPopBack ==
    /\ scen.phase \in {"push", "pop"}
    /\ scen.kf + scen.kb < scen.n
    /\ ScenCommit(pop_back(World), SubSeq(ref, 1, Len(ref) - 1))
    /\ scen' = [scen EXCEPT !.phase = "pop", !.kb = @ + 1]

NextPushPop ==
    \/ \E throws \in BOOLEAN : ScenPushBack(throws)
    \/ ScenPopFront
    \/ ScenPopBack

SpecPushPop == InitPushPop /\ [][NextPushPop]_vars

\* ------------------------------------------------------ two containers
\* A second container is made from the first by the copy or the move
\* constructor; then either is mutated.  An assignment of one to the other
\* (or to itself) and a comparison are observed calls, as is a copy that
\* fails.  Sizes stay within MaxSizeTwo.
WorldOf(s) == IF s = "this" THEN World ELSE OtherWorld
RefOf(s) == IF s = "this" THEN ref ELSE refOther
Peer(s) == IF s = "this" THEN "other" ELSE "this"
PositionsOf(s) == Positions(WorldOf(s)) \cup {end(WorldOf(s))}

\* The calls on two containers: <<target, argument>>.
CallPairs == {<<"this", "other">>, <<"other", "this">>, <<"this", "this">>}

\* The value each container is given to insert: its own, so that the
\* elements other has from a copy differ from those put into it later.
ValueOf(s) == IF s = "this" THEN 1 ELSE 2

\* The container s lives and no call has been observed yet.
Usable(s) == lastOp = NoCall /\ scen.phase = "free"
             /\ (s = "other" => other.live)

CanEmplaceOn(s, pos) ==
    /\ WorldOf(s).total_size < MaxSizeTwo
    /\ NeedsNode(WorldOf(s), pos) => FreeIds(World) # {}

\* How a copy of container o may be made to fail: at the first or the last
\* element construction (budget constructions succeed), or at the first or
\* the last node allocation (allocs allocations succeed); NoFail: not at all.
CopyFailures(o) ==
    {[budget |-> NoFail, allocs |-> NoFail]}
    \cup {[budget |-> b, allocs |-> NoFail] :
              b \in {0, o.total_size - 1} \cap Nat}
    \cup {[budget |-> NoFail, allocs |-> a] :
              a \in {0, Len(Chain(o)) - 1} \cap Nat}

Fails(f) == f.budget # NoFail \/ f.allocs # NoFail

TwoPushBack(s, v) ==
    /\ Usable(s)
    /\ CanEmplaceOn(s, end(WorldOf(s)))
    /\ CommitOn(s, push_back(WorldOf(s), v, FALSE), "push_back",
                end(WorldOf(s)), end(WorldOf(s)), Len(RefOf(s)), 1, v,
                Append(RefOf(s), v), FALSE)
    /\ UNCHANGED <<scen, nodeMax, dummy>>

TwoPushFront(s, v) ==
    /\ Usable(s)
    /\ CanEmplaceOn(s, begin(WorldOf(s)))
    /\ CommitOn(s, push_front(WorldOf(s), v, FALSE), "push_front",
                begin(WorldOf(s)), begin(WorldOf(s)), 0, 1, v,
                <<v>> \o RefOf(s), FALSE)
    /\ UNCHANGED <<scen, nodeMax, dummy>>

TwoInsert(s, pos, v) ==
    /\ Usable(s)
    /\ CanEmplaceOn(s, pos)
    /\ CommitOn(s, insert(WorldOf(s), pos, v, FALSE), "insert",
                pos, pos, Offset(WorldOf(s), pos), 1, v,
                InsertAt(RefOf(s), Offset(WorldOf(s), pos), v), FALSE)
    /\ UNCHANGED <<scen, nodeMax, dummy>>

TwoEraseRange(s, first, last) ==
    /\ Usable(s)
    /\ Offset(WorldOf(s), first) <= Offset(WorldOf(s), last)
    /\ CommitOn(s, erase(WorldOf(s), first, last), "erase_range",
                first, last, Offset(WorldOf(s), first),
                Offset(WorldOf(s), last) - Offset(WorldOf(s), first), 0,
                RemoveRange(RefOf(s), Offset(WorldOf(s), first),
                            Offset(WorldOf(s), last)),
                FALSE)
    /\ UNCHANGED <<scen, nodeMax, dummy>>

TwoPopBack(s) ==
    /\ Usable(s)
    /\ CommitOn(s, pop_back(WorldOf(s)), "pop_back",
                end(WorldOf(s)), end(WorldOf(s)), Len(RefOf(s)), 1, 0,
                SubSeq(RefOf(s), 1, Len(RefOf(s)) - 1), FALSE)
    /\ UNCHANGED <<scen, nodeMax, dummy>>

TwoPopFront(s) ==
    /\ Usable(s)
    /\ CommitOn(s, pop_front(WorldOf(s)), "pop_front",
                begin(WorldOf(s)), begin(WorldOf(s)), 0, 1, 0,
                SubSeq(RefOf(s), 2, Len(RefOf(s))), FALSE)
    /\ UNCHANGED <<scen, nodeMax, dummy>>

TwoClear(s) ==
    /\ Usable(s)
    /\ CommitOn(s, [w |-> clear(WorldOf(s)), ret |-> Iter(Null, 0),
                    exc |-> "none"],
                "clear", Iter(Null, 0), Iter(Null, 0), 0, Len(RefOf(s)), 0,
                <<>>, FALSE)
    /\ UNCHANGED <<scen, nodeMax, dummy>>

\* A call on two containers is observed: name, exception, the two
\* containers before it.
ObserveTwo(op, exc, s, arg, obs) ==
    IF obs
    THEN /\ lastOp' = Call(op, exc, Iter(Null, 0), Iter(Null, 0), 0, 0, 0)
         /\ pre' = <<World, OtherWorld>>
         /\ on' = On(s, arg)
    ELSE UNCHANGED <<lastOp, pre, on>>

\* unrolled_list other(*this): r is the result of the copy constructor.
\* After an exception there is no second container.
CopyConstructed(r, obs) ==
    /\ heap' = r.w.heap
    /\ IF r.exc = "none"
       THEN /\ other' = [live |-> TRUE, made |-> "copy",
                         head |-> r.w.head, tail |-> r.w.tail,
                         total_size |-> r.w.total_size]
            /\ refOther' = ref
       ELSE UNCHANGED <<other, refOther>>
    /\ ObserveTwo("copy_construct", r.exc, "other", "this", obs)
    /\ UNCHANGED <<head, tail, total_size, ref, ret, scen, nodeMax, dummy>>

CopyConstruct(f, obs) ==
    /\ Usable("this")
    /\ ~other.live
    /\ Cardinality(FreeIds(World)) >= Len(Chain(World))
    /\ Fails(f) => obs
    /\ CopyConstructed(copy_construct(Fresh(heap, "other"), World,
                                      f.budget, f.allocs),
                       obs)

\* unrolled_list other(std::move(*this))
MoveConstructed(r, obs) ==
    /\ heap' = r.w.heap
    /\ other' = [live |-> TRUE, made |-> "move",
                 head |-> r.w.head, tail |-> r.w.tail,
                 total_size |-> r.w.total_size]
    /\ refOther' = ref
    /\ head' = r.other.head
    /\ tail' = r.other.tail
    /\ total_size' = r.other.total_size
    /\ ref' = <<>>
    /\ ObserveTwo("move_construct", "none", "other", "this", obs)
    /\ UNCHANGED <<ret, scen, nodeMax, dummy>>

MoveConstruct(obs) ==
    /\ Usable("this")
    /\ ~other.live
    /\ MoveConstructed(move_construct(Fresh(heap, "other"), World), obs)

\* The members of both containers after a call on s: w is s after the
\* call and o the container that was its argument.
SetBoth(s, w, o) ==
    /\ heap' = w.heap
    /\ head' = IF s = "this" THEN w.head ELSE o.head
    /\ tail' = IF s = "this" THEN w.tail ELSE o.tail
    /\ total_size' = IF s = "this" THEN w.total_size ELSE o.total_size
    /\ other' = IF s = "this"
                THEN [other EXCEPT !.head = o.head, !.tail = o.tail,
                                   !.total_size = o.total_size]
                ELSE [other EXCEPT !.head = w.head, !.tail = w.tail,
                                   !.total_size = w.total_size]

\* s = std::move(arg)
MoveAssigned(s, arg, r) ==
    /\ SetBoth(s, r.w, IF arg = s THEN WorldOf(Peer(s)) ELSE r.other)
    /\ ref' = IF arg = s THEN ref
              ELSE IF s = "this" THEN refOther ELSE <<>>
    /\ refOther' = IF arg = s THEN refOther
                   ELSE IF s = "this" THEN <<>> ELSE ref
    /\ ObserveTwo("move_assign", "none", s, arg, TRUE)
    /\ UNCHANGED <<ret, scen, nodeMax, dummy>>

MoveAssign(s, arg) ==
    /\ Usable("other")
    /\ MoveAssigned(s, arg, move_assign(WorldOf(s), WorldOf(arg), arg = s))

\* s = arg
CopyAssigned(s, arg, r) ==
    /\ SetBoth(s, r.w, WorldOf(Peer(s)))
    /\ ref' = IF s = "this" /\ r.exc = "none" THEN RefOf(arg) ELSE ref
    /\ refOther' = IF s = "other" /\ r.exc = "none" THEN RefOf(arg)
                   ELSE refOther
    /\ ObserveTwo("copy_assign", r.exc, s, arg, TRUE)
    /\ UNCHANGED <<ret, scen, nodeMax, dummy>>

CopyAssign(s, arg, f) ==
    /\ Usable("other")
    /\ Cardinality(FreeIds(World)) >= Len(Chain(WorldOf(arg)))
    /\ CopyAssigned(s, arg,
                    copy_assign(WorldOf(s), WorldOf(arg), arg = s,
                                f.budget, f.allocs))

\* s == arg: the result is what the observed call returned.
Equal(s, arg) ==
    /\ Usable("other")
    /\ ret' = equal(WorldOf(s), WorldOf(arg), arg = s)
    /\ ObserveTwo("equal", "none", s, arg, TRUE)
    /\ UNCHANGED <<heap, head, tail, total_size, ref, other, refOther, scen, nodeMax, dummy>>

NextTwo ==
    \/ \E s \in Sides : TwoPushBack(s, ValueOf(s))
    \/ \E s \in Sides : TwoPushFront(s, ValueOf(s))
    \/ \E s \in Sides :
          \E pos \in PositionsOf(s) : TwoInsert(s, pos, ValueOf(s))
    \/ \E s \in Sides :
          \E first \in PositionsOf(s), last \in PositionsOf(s) :
              TwoEraseRange(s, first, last)
    \/ \E s \in Sides : TwoPopBack(s)
    \/ \E s \in Sides : TwoPopFront(s)
    \/ \E s \in Sides : TwoClear(s)
    \/ \E f \in CopyFailures(World), obs \in BOOLEAN : CopyConstruct(f, obs)
    \/ \E obs \in BOOLEAN : MoveConstruct(obs)
    \/ \E c \in CallPairs : MoveAssign(c[1], c[2])
    \/ \E c \in CallPairs :
          \E f \in CopyFailures(WorldOf(c[2])) : CopyAssign(c[1], c[2], f)
    \/ \E c \in CallPairs : Equal(c[1], c[2])

SpecTwo == Init /\ [][NextTwo]_vars

\* The calls on one container, and its copy construction, observed.
NextCopy ==
    \/ Next
    \/ CopyConstruct([budget |-> NoFail, allocs |-> NoFail], TRUE)

SpecCopy == Init /\ [][NextCopy]_vars

\* ============================================================ claims
\* A call has been observed, and it raised nothing.
Observed(ops) == lastOp.op \in ops /\ lastOp.exc = "none"

\* The container the observed call was made on.
Pre == pre[1]

\* C1: the elements read by iterating begin()..end() are those of the
\* reference sequence the same calls produce, in the same order, and
\* size() is its length.
C1_Refinement ==
    /\ IterSeq(World) = ref
    /\ size(World) = Len(ref)

\* C1 witness: a range erase that crossed node boundaries and removed a
\* whole node in between has been made on a list built by splits, and
\* elements remain.
C1_Witness ==
    /\ Observed({"erase_range"})
    /\ Len(Chain(Pre)) >= 3
    /\ Len(Chain(World)) = 2
    /\ lastOp.first.node # Null /\ lastOp.last.node # Null
    /\ lastOp.first.index > 0 \/ lastOp.last.index > 0
    /\ Len(ref) >= 2


\* C2 (as claimed): when the element constructor throws during emplace /
\* insert / push, the container is exactly as it was before the call.
C2_StrongGuarantee ==
    lastOp.exc = "ctor" => World = Pre

\* C3 (as claimed): when the constructor throws on the K-th push_back of a
\* run of push_backs onto an empty list, size() is K - 1 and iteration
\* yields the K - 1 elements pushed before, in order.
C3_ThrowKeepsPrefix ==
    scen.phase = "thrown" =>
        /\ size(World) = scen.n
        /\ IterSeq(World) = [i \in 1..scen.n |-> i]

\* C4 (as claimed): the iterator returned by erase of a non-empty range
\* designates the element that followed the range, as a position with
\* index < count of its node, or is end() when nothing followed.
C4_EraseReturnsFollowing ==
    Observed({"erase", "erase_range"}) /\ lastOp.n >= 1 =>
        IF lastOp.at < Len(ref)
        THEN ret \in Positions(World) /\ Offset(World, ret) = lastOp.at
        ELSE ret = end(World)

\* C5: size() equals the sum of count over the nodes reachable from head.
C5_SizeIsSumOfCounts ==
    total_size = SumCounts(World, Chain(World), Len(Chain(World)))

\* C5 witness: a range erase that removed at least one whole node and two
\* or more elements, leaving elements behind.
C5_Witness ==
    /\ Observed({"erase_range"})
    /\ lastOp.n >= 2
    /\ Len(Chain(Pre)) >= 3
    /\ Len(Chain(World)) < Len(Chain(Pre))
    /\ total_size >= 1

\* C6: after push_back of 1..n and kf pop_front and kb pop_back calls,
\* size() is n - kf - kb and iteration yields kf+1 .. n-kb in order.
C6_PushThenPop ==
    scen.phase \in {"push", "pop"} =>
        /\ size(World) = scen.n - scen.kf - scen.kb
        /\ IterSeq(World) = [i \in 1..(scen.n - scen.kf - scen.kb) |->
                                scen.kf + i]

\* C6 witness: 1..14 pushed, 5 popped from the front: size 9, 6..14 left.
C6_Witness ==
    /\ scen = [phase |-> "pop", n |-> 14, kf |-> 5, kb |-> 0]
    /\ size(World) = 9
    /\ IterSeq(World) = <<6, 7, 8, 9, 10, 11, 12, 13, 14>>

\* C7: on a non-empty list front() is the first and back() the last element
\* of the iteration; right after push_front(v) front() is v and back() is
\* what it was, right after push_back(v) back() is v and front() is what it
\* was.
C7_FrontBack ==
    /\ total_size > 0 =>
          /\ front(World) = [val |-> IterSeq(World)[1], exc |-> "none"]
          /\ back(World) = [val |-> IterSeq(World)[Len(IterSeq(World))],
                            exc |-> "none"]
    /\ Observed({"push_front"}) =>
          /\ front(World).val = lastOp.v
          /\ Pre.total_size > 0 => back(World) = back(Pre)
    /\ Observed({"push_back"}) =>
          /\ back(World).val = lastOp.v
          /\ Pre.total_size > 0 => front(World) = front(Pre)

\* C7 witness: push_front of a value other than the old front split the
\* head node of a list whose tail is another node.
C7_Witness ==
    /\ Observed({"push_front"})
    /\ Len(Chain(Pre)) >= 2
    /\ Len(Chain(World)) = Len(Chain(Pre)) + 1
    /\ lastOp.v # front(Pre).val

\* C8: front() and back() on an empty container raise out_of_range and
\* leave the container empty, head = tail = null.
C8_EmptyAccessThrows ==
    lastOp.op \in {"front", "back"} /\ Pre.total_size = 0 =>
        /\ lastOp.exc = "out_of_range"
        /\ World = Pre
        /\ head = Null /\ tail = Null /\ total_size = 0

\* C8 witness: back() was called on an empty list and raised out_of_range.
C8_Witness ==
    /\ lastOp.op = "back"
    /\ lastOp.exc = "out_of_range"
    /\ total_size = 0

\* C9 (as claimed): pop_front() / pop_back() on an empty container is
\* reported as an out_of_range error and the container stays empty.
C9_PopEmptyThrows ==
    lastOp.op \in {"pop_front", "pop_back"} /\ Pre.total_size = 0 =>
        /\ lastOp.exc = "out_of_range"
        /\ total_size = 0

\* C9 (amended): pop_front() / pop_back() on an empty container raises
\* nothing and changes nothing; the container stays empty.
C9_PopEmptyNoOp ==
    lastOp.op \in {"pop_front", "pop_back"} /\ Pre.total_size = 0 =>
        /\ lastOp.exc = "none"
        /\ World = Pre
        /\ head = Null /\ tail = Null /\ total_size = 0

\* C9 witness: pop_back() was called on an empty container.
C9_Witness ==
    /\ lastOp.op = "pop_back"
    /\ Pre.total_size = 0
    /\ Pre.head = Null

\* C10: erase(it, it) changes nothing and returns it; insert(pos, 0, value)
\* changes nothing, allocates no node and returns pos.
C10_EmptyRangeNoOp ==
    /\ Observed({"erase_range"}) /\ lastOp.first = lastOp.last =>
          World = Pre /\ ret = lastOp.first
    /\ Observed({"insert_n"}) /\ lastOp.n = 0 =>
          World = Pre /\ ret = lastOp.first

\* C10 witness: erase(end(), end()) was called on a list of several nodes.
C10_Witness ==
    /\ Observed({"erase_range"})
    /\ lastOp.first = end(Pre) /\ lastOp.last = end(Pre)
    /\ Len(Chain(Pre)) >= 2

\* C11 (as claimed): insert(pos, M, value) with M >= 1 puts M copies of
\* value before the element pos designated (at the end for end()), keeps
\* the other elements in order, adds M to size(), and returns an iterator
\* that designates the first inserted copy, with index < count of its node.
C11_InsertNReturnsFirst ==
    Observed({"insert_n"}) /\ lastOp.n >= 1 =>
        /\ IterSeq(World) =
               InsertCopies(IterSeq(Pre), lastOp.at, lastOp.n, lastOp.v)
        /\ size(World) = size(Pre) + lastOp.n
        /\ ret \in Positions(World)
        /\ Offset(World, ret) = lastOp.at

\* C12: erase(begin(), end()) on a non-empty container, of one node or of
\* many, leaves head = tail = null, size() = 0, begin() = end() and no node
\* alive: the container is the one the default constructor makes.
C12_EraseAllIsFresh ==
    /\ Observed({"erase_range"})
    /\ Pre.total_size > 0
    /\ lastOp.first = begin(Pre) /\ lastOp.last = end(Pre)
    => /\ head = Null /\ tail = Null
       /\ size(World) = 0
       /\ begin(World) = end(World)
       /\ World = EmptyList

\* C12 witness: the full range of a list of three or more nodes was erased.
C12_Witness ==
    /\ Observed({"erase_range"})
    /\ lastOp.first = begin(Pre) /\ lastOp.last = end(Pre)
    /\ Len(Chain(Pre)) >= 3
    /\ World = EmptyList

\* What a container is made of: its members and the nodes of its chain,
\* each with its count, links and slots.
View(w) ==
    [head |-> w.head, tail |-> w.tail, total_size |-> w.total_size,
     nodes |-> [n \in ChainNodes(w) |-> w.heap[n]]]

\* Container s as it was before the observed call.
PreOf(s) == IF s = "this" THEN pre[1] ELSE pre[2]

\* The counts of the nodes of the chain, in order.
Packing(w) == [k \in 1..Len(Chain(w)) |-> w.heap[Chain(w)[k]].count]

\* A step that is no call on container s and no assignment to it.
LeavesThis == head' = head /\ tail' = tail /\ total_size' = total_size
              /\ ref' = ref
LeavesOther == other' = other /\ refOther' = refOther

\* C13: a container copy-constructed from another shares no node with it,
\* and a call on either of the two (push, insert, erase, pop, clear) leaves
\* the other's node chain, elements and size() as they were.
C13_CopyIndependent ==
    /\ [](other.made = "copy" =>
            ChainNodes(World) \cap ChainNodes(OtherWorld) = {})
    /\ [][other.made = "copy" =>
            /\ LeavesOther => View(OtherWorld)' = View(OtherWorld)
            /\ LeavesThis => View(World)' = View(World)]_vars

\* C13 witness: other was copied from this when this held elements, then an
\* element was put into other and this was emptied; other, of two or more
\* nodes, still has the copied elements.
C13_Witness ==
    /\ other.made = "copy"
    /\ lastOp = NoCall
    /\ ref = <<>> /\ head = Null
    /\ Len(Chain(OtherWorld)) >= 2
    /\ IterSeq(OtherWorld) = refOther
    /\ \E i, j \in 1..Len(refOther) : refOther[i] = 1 /\ refOther[j] = 2

\* C14: after the move constructor, and after a move assignment from a
\* different container, the target holds exactly the source's former chain,
\* elements and size(), and the source is empty (head = tail = null,
\* size() = 0); calls made on either afterwards behave as on any container.
C14_MoveTransfers ==
    /\ Observed({"move_construct", "move_assign"}) /\ on.this # on.arg =>
          /\ View(WorldOf(on.this)) = View(PreOf(on.arg))
          /\ IterSeq(WorldOf(on.this)) = IterSeq(PreOf(on.arg))
          /\ View(WorldOf(on.arg)) = View(EmptyList)
    /\ other.made = "move" /\ lastOp = NoCall =>
          /\ IterSeq(World) = ref /\ size(World) = Len(ref)
          /\ IterSeq(OtherWorld) = refOther
          /\ size(OtherWorld) = Len(refOther)

\* C14 witness: other, holding elements, was move-assigned from this, a
\* list of two or more nodes.
C14_Witness ==
    /\ Observed({"move_assign"})
    /\ on = On("other", "this")
    /\ Len(Chain(pre[1])) >= 2
    /\ pre[2].total_size > 0
    /\ View(OtherWorld) = View(pre[1])
    /\ head = Null

\* C15: a copy assignment that completes leaves the target with the element
\* sequence and size() of its argument and the argument as it was (an
\* assignment to itself changes nothing); one whose copy fails leaves the
\* target's chain, elements and size() as they were.
C15_CopyAssign ==
    lastOp.op = "copy_assign" =>
        /\ lastOp.exc = "none" /\ on.this # on.arg =>
              /\ IterSeq(WorldOf(on.this)) = IterSeq(PreOf(on.arg))
              /\ size(WorldOf(on.this)) = size(PreOf(on.arg))
              /\ View(WorldOf(on.arg)) = View(PreOf(on.arg))
        /\ on.this = on.arg => World = pre[1] /\ OtherWorld = pre[2]
        /\ lastOp.exc # "none" =>
              /\ View(WorldOf(on.this)) = View(PreOf(on.this))
              /\ View(WorldOf(on.arg)) = View(PreOf(on.arg))

\* C15 witness: this, of two or more nodes, was assigned other, and the
\* copy failed after nodes had been built.
C15_Witness ==
    /\ lastOp.op = "copy_assign"
    /\ lastOp.exc = "ctor"
    /\ on = On("this", "other")
    /\ Len(Chain(pre[1])) >= 2
    /\ heap # pre[1].heap
    /\ View(World) = View(pre[1])

\* C16: operator== is true exactly when the two sizes are equal and the
\* two iteration sequences are equal element by element, however the
\* elements are spread over nodes.
C16_Equality ==
    lastOp.op = "equal" =>
        ret = (/\ size(WorldOf(on.this)) = size(WorldOf(on.arg))
               /\ IterSeq(WorldOf(on.this)) = IterSeq(WorldOf(on.arg)))

\* C16 witness: two containers of three or more elements, spread over their
\* nodes in different ways, compared equal.
C16_Witness ==
    /\ lastOp.op = "equal"
    /\ ret = TRUE
    /\ on = On("this", "other")
    /\ total_size >= 3
    /\ Packing(World) # Packing(OtherWorld)

\* The positions of the chain: (node, 0), ..., (node, count - 1) of each
\* node from head on.
RECURSIVE ChainPositions(_, _)
ChainPositions(w, k) ==
    IF k > Len(Chain(w)) THEN <<>>
    ELSE [i \in 1..w.heap[Chain(w)[k]].count |-> Iter(Chain(w)[k], i - 1)]
         \o ChainPositions(w, k + 1)

\* C17: from begin(), ++ visits (node, 0), ..., (node, count - 1) of each
\* node in chain order and equals end() after exactly size() increments.
C17_TraversalVisitsAll ==
    lastOp.op = "traverse" =>
        /\ ret = ChainPositions(World, 1)
        /\ Len(ret) = size(World)
        /\ lastOp.n = size(World)

\* C17 witness: a list of three or more nodes, not all equally full, was
\* walked from begin() to end().
C17_Witness ==
    /\ lastOp.op = "traverse"
    /\ Len(Chain(World)) >= 3
    /\ \E k \in 1..Len(Chain(World)) :
          Packing(World)[k] # Packing(World)[1]
    /\ Len(ret) = total_size

\* C18: on a non-empty list --end() is (tail, tail.count - 1); --(++it) is
\* it for every position it other than end(); ++(--it) is it for every
\* position it other than begin(), end() included.
C18_DecrementInvertsIncrement ==
    /\ lastOp.op = "decrement" /\ lastOp.first = end(World) /\ total_size > 0
          => ret = Iter(tail, heap[tail].count - 1)
    /\ lastOp.op = "increment" /\ lastOp.first # end(World)
          => IterDec(World, ret) = lastOp.first
    /\ lastOp.op = "decrement" /\ lastOp.first # begin(World)
          => Inc(World, ret) = lastOp.first

\* C18 witness: -- was applied at the first slot of a node other than head,
\* whose predecessor holds two or more elements.
C18_Witness ==
    /\ lastOp.op = "decrement"
    /\ lastOp.first.node # Null
    /\ lastOp.first.node # head
    /\ lastOp.first.index = 0
    /\ ret.node = heap[lastOp.first.node].prev
    /\ ret.index >= 1
    /\ Inc(World, ret) = lastOp.first

\* The place of node n in the chain of w.
ChainIndex(w, n) == CHOOSE k \in 1..Len(Chain(w)) : Chain(w)[k] = n

\* The node an emplace at pos goes into: the tail for end().
Target(w, pos) == IF pos.node = Null THEN w.tail ELSE pos.node

\* The nodes a range erase works on: the node of first, the node of last
\* (the tail for end()) and the nodes between them.
Touched(w, first, last) ==
    IF first.node = Null THEN {}
    ELSE {Chain(w)[k] :
             k \in ChainIndex(w, first.node)..
                   ChainIndex(w, Target(w, last))}

\* Node n is in the chain as before, with the count and the slots it had.
Untouched(n) ==
    /\ n \in ChainNodes(World)
    /\ heap[n].count = Pre.heap[n].count
    /\ heap[n].data = Pre.heap[n].data

\* C19: a single-element emplace changes the count and slots of the target
\* node and of at most one new node only; a range erase changes only the
\* node of first, the node of last and the nodes between.  Every other
\* node keeps its place in the chain, its count and its slots.
C19_Locality ==
    /\ Observed({"insert", "push_back", "push_front"}) =>
          /\ \A n \in ChainNodes(Pre) \ {Target(Pre, lastOp.first)} :
                Untouched(n)
          /\ Cardinality(ChainNodes(World) \ ChainNodes(Pre)) <= 1
    /\ Observed({"erase", "erase_range"}) =>
          \A n \in ChainNodes(Pre) \ Touched(Pre, lastOp.first, lastOp.last) :
              Untouched(n)

\* C19 witness: elements were erased from an inner node of a list that has
\* a node before it and a node after it, both left as they were.
C19_Witness ==
    /\ Observed({"erase_range"})
    /\ lastOp.n >= 1
    /\ Len(Chain(Pre)) >= 3
    /\ lastOp.first.node = Chain(Pre)[2]
    /\ lastOp.last.node = Chain(Pre)[2]
    /\ Untouched(Chain(Pre)[1]) /\ Untouched(Chain(Pre)[3])

\* C20: a node allocation that fails during emplace (the first node of an
\* empty list, or the new node of a split) leaves the call as an exception
\* and leaves the container as it was: head, tail, nodes, counts, elements
\* and size.
C20_AllocFailureUnchanged ==
    lastOp.exc = "bad_alloc" =>
        /\ lastOp.op \in {"insert", "push_back", "push_front"}
        /\ NeedsNode(Pre, lastOp.first)
        /\ World = Pre
        /\ IterSeq(World) = IterSeq(Pre)
        /\ size(World) = size(Pre)

\* C20 witness: the allocation of the new node of a split failed, in the
\* middle of a list of more than one node.
C20_Witness ==
    /\ lastOp.op = "insert" /\ lastOp.exc = "bad_alloc"
    /\ Len(Chain(Pre)) >= 2
    /\ lastOp.first.node # Null
    /\ Pre.heap[lastOp.first.node].count = NodeMaxSize
    /\ lastOp.first.index > 0

\* The nodes allocated and not destroyed.
LiveNodes(w) == {n \in NodeIds : w.heap[n].live}

\* C21: between non-failing calls the nodes allocated and not yet destroyed
\* are exactly the nodes reachable from head, no node has been destroyed
\* twice, and after clear() no node is left, head = tail = null and
\* size() = 0.
C21_NodesOwned ==
    /\ LiveNodes(World) = ChainNodes(World)
    /\ \A n \in NodeIds : heap[n] # TwiceFreed
    /\ Observed({"clear"}) =>
          /\ LiveNodes(World) = {}
          /\ head = Null /\ tail = Null
          /\ size(World) = 0

\* C21 witness: clear() destroyed a chain of three or more nodes.
C21_Witness ==
    /\ Observed({"clear"})
    /\ Cardinality(LiveNodes(Pre)) >= 3
    /\ LiveNodes(World) = {}

\* C22: for every index below size(), operator[] yields the element the
\* iteration from begin() reaches at that place, and leaves the container
\* as it is.
C22_SubscriptIsIteration ==
    /\ \A i \in 0..(total_size - 1) :
          subscript(World, i) = IterSeq(World)[i + 1]
    /\ Observed({"subscript"}) =>
          /\ lastOp.v = IterSeq(Pre)[lastOp.at + 1]
          /\ lastOp.v = ref[lastOp.at + 1]
          /\ World = Pre

\* C22 witness: operator[] read an element of the third node of the chain,
\* other than its first, that differs from the first element of the list.
C22_Witness ==
    /\ Observed({"subscript"})
    /\ Len(Chain(Pre)) >= 3
    /\ lastOp.at > SumCounts(Pre, Chain(Pre), 2)
    /\ lastOp.at < SumCounts(Pre, Chain(Pre), 3)
    /\ lastOp.v # IterSeq(Pre)[1]

\* The observed single-element call made again on the container it was made
\* on: the container after it, with the work the call did.
Redone ==
    CASE lastOp.op = "insert" ->
             insert(Pre, lastOp.first, lastOp.v, FALSE).w
      [] lastOp.op = "push_back" -> push_back(Pre, lastOp.v, FALSE).w
      [] lastOp.op = "push_front" -> push_front(Pre, lastOp.v, FALSE).w
      [] lastOp.op = "erase" -> erase_pos(Pre, lastOp.first).w
      [] lastOp.op = "pop_back" -> pop_back(Pre).w
      [] lastOp.op = "pop_front" -> pop_front(Pre).w

\* C23: one single-element insert or erase constructs and destroys at most
\* 2 * NodeMaxSize elements in the nodes, whatever the number of nodes and
\* elements of the container.
C23_ConstantWork ==
    Observed({"insert", "push_back", "push_front",
              "erase", "pop_back", "pop_front"}) =>
        /\ Redone.heap = heap
        /\ Redone.work <= 2 * NodeMaxSize

\* C23 witness: an insert at the first slot of a full node, in a list of
\* several nodes, did the most work a call can do.
C23_Witness ==
    /\ Observed({"insert"})
    /\ Len(Chain(Pre)) >= 2
    /\ Pre.total_size > NodeMaxSize
    /\ lastOp.first.node # Null
    /\ Pre.heap[lastOp.first.node].count = NodeMaxSize
    /\ lastOp.first.index = 0
    /\ Redone.work = 2 * NodeMaxSize

\* C24: between non-failing calls, head is null exactly when tail is null
\* and exactly when size() is 0.
C24_EmptyIff ==
    /\ (head = Null) <=> (tail = Null)
    /\ (tail = Null) <=> (total_size = 0)

\* C24 witness: erasing the only element of a list removed its only node.
C24_Witness ==
    /\ Observed({"erase", "pop_back", "pop_front"})
    /\ Pre.total_size = 1 /\ Pre.head # Null /\ Pre.head = Pre.tail
    /\ head = Null /\ tail = Null /\ total_size = 0

C26_CountWithinNode ==
    \A n \in ChainNodes(World) :
        /\ heap[n].count <= nodeMax
        /\ ~heap[n].overrun

\* C27: between non-failing calls every node reachable from head holds at
\* least one element; a node that an erase left without elements is out of
\* the chain and destroyed when the erase returns.
C27_NoEmptyNode ==
    /\ \A n \in ChainNodes(World) : heap[n].count >= 1
    /\ Observed({"erase", "erase_range", "pop_back", "pop_front"}) =>
          \A n \in ChainNodes(Pre) :
              \/ n \in ChainNodes(World) /\ heap[n].count >= 1
              \/ n \notin ChainNodes(World) /\ ~heap[n].live

\* C27 witness: a cross-node erase from the first slot of the second node
\* to end() emptied the truncated first node of the range and the last
\* node; both are gone and the node before them is the whole chain.
C27_Witness ==
    /\ Observed({"erase_range"})
    /\ Len(Chain(Pre)) >= 3
    /\ lastOp.first = Iter(Chain(Pre)[2], 0)
    /\ lastOp.last = end(Pre)
    /\ Chain(World) = <<Chain(Pre)[1]>>
    /\ ~heap[Chain(Pre)[2]].live
    /\ ~heap[Pre.tail].live

\* C28: after every completed call, in every chain node the slots below
\* count hold a live element and the slots from count on hold no constructed
\* object, those a split moved elements out of included.
C28_SlotsMatchCount ==
    \A n \in ChainNodes(World) : \A i \in Slots :
        /\ i < heap[n].count => heap[n].data[i] \in Values
        /\ i >= heap[n].count => heap[n].data[i] = RAW

\* The elements of node n, in slot order.
Elements(w, n) == [k \in 1..w.heap[n].count |-> w.heap[n].data[k - 1]]

\* The index in its node an emplace at pos goes to: count of the tail for
\* end().
TargetIndex(w, pos) ==
    IF pos.node = Null THEN w.heap[w.tail].count ELSE pos.index

\* The observed call was a single-element emplace into a full node.
SplitCall ==
    /\ Observed({"insert", "push_back", "push_front"})
    /\ Pre.head # Null
    /\ Pre.heap[Target(Pre, lastOp.first)].count = NodeMaxSize

\* The split of full node t by an emplace of v at index i: the first
\* kept = NodeMaxSize - NodeMaxSize / 2 elements stay, the others are in one
\* new node m right after t, and v is at index i of t when i <= kept, at
\* index i - kept of m otherwise.
SplitAsClaimed(t, i, v, kept) ==
    /\ Cardinality(ChainNodes(World) \ ChainNodes(Pre)) = 1
    /\ \A m \in ChainNodes(World) \ ChainNodes(Pre) :
          /\ heap[t].next = m /\ heap[m].prev = t
          /\ heap[m].next = Pre.heap[t].next
          /\ tail = IF Pre.tail = t THEN m ELSE Pre.tail
          /\ IF i <= kept
             THEN /\ Elements(World, t) =
                        InsertAt(SubSeq(Elements(Pre, t), 1, kept), i, v)
                  /\ Elements(World, m) =
                        SubSeq(Elements(Pre, t), kept + 1, NodeMaxSize)
                  /\ ret = Iter(t, i)
             ELSE /\ Elements(World, t) = SubSeq(Elements(Pre, t), 1, kept)
                  /\ Elements(World, m) =
                        InsertAt(SubSeq(Elements(Pre, t), kept + 1,
                                        NodeMaxSize),
                                 i - kept, v)
                  /\ ret = Iter(m, i - kept)

\* C29: an emplace at index i of a full node keeps the node's first
\* NodeMaxSize - NodeMaxSize / 2 elements in it and moves the last
\* NodeMaxSize / 2, in order, to one new node linked right after it (the
\* tail moves with it); the new element is at index i of the node when
\* i <= NodeMaxSize - NodeMaxSize / 2 and in the new node otherwise.
C29_SplitPlacement ==
    SplitCall =>
        SplitAsClaimed(Target(Pre, lastOp.first),
                       TargetIndex(Pre, lastOp.first), lastOp.v,
                       NodeMaxSize - NodeMaxSize \div 2)

\* C29 witness: an insert at the last kept index of a full node that is not
\* the tail put a value other than the node's elements there.
C29_Witness ==
    /\ SplitCall
    /\ lastOp.op = "insert"
    /\ lastOp.first.node # Null /\ lastOp.first.node # Pre.tail
    /\ lastOp.first.index = NodeMaxSize - NodeMaxSize \div 2
    /\ \A k \in 1..NodeMaxSize :
          Elements(Pre, lastOp.first.node)[k] # lastOp.v
    /\ ret = lastOp.first

\* C30: one insert(pos, value), push_back or push_front allocates at most
\* one node: exactly one when the container was empty or the target node
\* was full, none otherwise; no node is freed and the chain grows by the
\* node allocated.
C30_OneNodePerCall ==
    Observed({"insert", "push_back", "push_front"}) =>
        /\ LiveNodes(Pre) \subseteq LiveNodes(World)
        /\ Cardinality(LiveNodes(World) \ LiveNodes(Pre)) =
              IF NeedsNode(Pre, lastOp.first) THEN 1 ELSE 0
        /\ Len(Chain(World)) - Len(Chain(Pre)) =
              Cardinality(LiveNodes(World) \ LiveNodes(Pre))

\* C30 witness: the first insertion into an empty container allocated its
\* one node, which holds the element.
C30_Witness ==
    /\ Observed({"insert", "push_back", "push_front"})
    /\ Pre.head = Null
    /\ Cardinality(LiveNodes(World)) = 1
    /\ head = tail /\ heap[head].count = 1

\* The elements of node n of w whose place in the list is outside [a, b).
Survivors(w, n, a, b) ==
    LET idx == SelectSeq([k \in 1..w.heap[n].count |-> k],
                         LAMBDA k : \/ Offset(w, Iter(n, k - 1)) < a
                                    \/ Offset(w, Iter(n, k - 1)) >= b)
    IN [j \in 1..Len(idx) |-> w.heap[n].data[idx[j] - 1]]

\* C31: an erase moves no element to another node and raises no node's
\* count: every node of the chain after it was in the chain before, holds
\* exactly those of its own elements that were not erased, and the nodes
\* gone are those that had all their elements erased; adjacent under-full
\* nodes are not merged.
C31_NoMerging ==
    Observed({"erase", "erase_range"}) =>
        /\ Chain(World) =
              SelectSeq(Chain(Pre),
                        LAMBDA n : Survivors(Pre, n, lastOp.at,
                                             lastOp.at + lastOp.n) # <<>>)
        /\ \A n \in ChainNodes(World) :
              /\ heap[n].count <= Pre.heap[n].count
              /\ Elements(World, n) =
                    Survivors(Pre, n, lastOp.at, lastOp.at + lastOp.n)

\* C31 witness: an erase left two adjacent nodes whose elements would fit
\* in one, and both are still there.
C31_Witness ==
    /\ Observed({"erase", "erase_range"})
    /\ lastOp.n >= 1
    /\ Len(Chain(World)) >= 2
    /\ Len(Chain(World)) = Len(Chain(Pre))
    /\ heap[Chain(World)[1]].count + heap[Chain(World)[2]].count
          <= NodeMaxSize
    /\ heap[Chain(World)[1]].count < Pre.heap[Chain(World)[1]].count

\* C32: the copy constructor builds a chain of as many nodes as the
\* source's, each with the count of the source's node at the same place and
\* the same values at the same slot indices, and the same size().
C32_CopyKeepsPacking ==
    Observed({"copy_construct"}) =>
        /\ Len(Chain(OtherWorld)) = Len(Chain(Pre))
        /\ Packing(OtherWorld) = Packing(Pre)
        /\ \A k \in 1..Len(Chain(Pre)) :
              Elements(OtherWorld, Chain(OtherWorld)[k]) =
                  Elements(Pre, Chain(Pre)[k])
        /\ size(OtherWorld) = size(Pre)
        /\ ChainNodes(OtherWorld) \cap ChainNodes(World) = {}

\* C32 witness: the source had nodes of different counts, one of them
\* holding two different values, and the copy has the same packing.
C32_Witness ==
    /\ Observed({"copy_construct"})
    /\ Len(Chain(Pre)) >= 2
    /\ \E j, k \in 1..Len(Chain(Pre)) : Packing(Pre)[j] # Packing(Pre)[k]
    /\ \E n \in ChainNodes(Pre) :
          Pre.heap[n].count >= 2 /\ Pre.heap[n].data[0] # Pre.heap[n].data[1]
    /\ Packing(OtherWorld) = Packing(Pre)

\* C33: after n >= 1 push_back calls on an empty list and nothing else,
\* every node but the tail holds NodeMaxSize - NodeMaxSize / 2 elements and
\* the tail between 1 and NodeMaxSize; after NodeMaxSize + 1 calls there
\* are two nodes, of NodeMaxSize - NodeMaxSize / 2 and NodeMaxSize / 2 + 1
\* elements, that hold the pushed sequence in order.
C33_PushBackPacking ==
    scen.phase = "push" /\ scen.n >= 1 =>
        /\ \A k \in 1..(Len(Chain(World)) - 1) :
              heap[Chain(World)[k]].count = NodeMaxSize - NodeMaxSize \div 2
        /\ heap[tail].count \in 1..NodeMaxSize
        /\ scen.n = NodeMaxSize + 1 =>
              /\ Packing(World) = <<NodeMaxSize - NodeMaxSize \div 2,
                                    NodeMaxSize \div 2 + 1>>
              /\ Elements(World, head) \o Elements(World, tail) =
                    [i \in 1..(NodeMaxSize + 1) |-> i]

\* C33 witness: NodeMaxSize + 1 push_back calls were made and the first
\* split has happened.
C33_Witness ==
    /\ scen.phase = "push" /\ scen.n = NodeMaxSize + 1
    /\ Len(Chain(World)) = 2
    /\ IterSeq(World) = [i \in 1..(NodeMaxSize + 1) |-> i]

\* The observed call made again on the container it was made on: the
\* container after it, with what the call did.
Replayed ==
    CASE lastOp.op = "erase_range" ->
             erase(Pre, lastOp.first, lastOp.last).w
      [] lastOp.op = "insert_n" ->
             insert_n(Pre, lastOp.first, lastOp.n, lastOp.v).w
      [] lastOp.op = "clear" -> clear(Pre)
      [] OTHER -> Redone

\* C34: in every insert, erase and clear the element destroy operation is
\* applied only to slots that hold a constructed element and the construct
\* operation only to slots that hold none.
C34_ConstructDestroyPaired ==
    Observed({"insert", "push_back", "push_front", "insert_n", "erase",
              "erase_range", "pop_back", "pop_front", "clear"}) =>
        /\ Replayed.heap = heap
        /\ ~Replayed.misuse

\* ============================================ the sentinel-based draft
\* The draft of the container that keeps one node, dummy, allocated for as
\* long as the container lives: the tail's next is dummy, end() is (dummy, 0).
\* Its operators carry the prefix sentinel_.

\* The container object of the draft.
SentinelWorld == [heap |-> heap, head |-> head, tail |-> tail,
                  total_size |-> total_size, dummy |-> dummy,
                  arena |-> "this", work |-> 0, cap |-> nodeMax,
                  misuse |-> FALSE, allocator |-> "this"]

sentinel_end(w) == Iter(w.dummy, 0)
sentinel_begin(w) == IF w.head # Null THEN Iter(w.head, 0) ELSE sentinel_end(w)

\* iterator::operator++
sentinel_inc(w, it) ==
    IF /\ it.node # Null
       /\ w.heap[it.node].next # Null
       /\ it.index = Dec(w.heap[it.node].count)
    THEN Iter(w.heap[it.node].next, 0)
    ELSE Iter(it.node, it.index + 1)

\* iterator::operator--: nothing moves unless current_node has a prev.
sentinel_dec(w, it) ==
    IF it.node # Null /\ w.heap[it.node].prev # Null
    THEN IF w.heap[it.node].next = Null \/ it.index = 0
         THEN Iter(w.heap[it.node].prev,
                   Dec(w.heap[w.heap[it.node].prev].count))
         ELSE Iter(it.node, it.index - 1)
    ELSE it

\* emplace_into_node_, the split: each of the dataToMove elements is
\* move-constructed in newNode and destroyed in node.
RECURSIVE sentinel_split_move(_, _, _, _)
sentinel_split_move(w, node, newNode, i) ==
    IF i = 0 THEN w
    ELSE destroy_at(
             construct_at(sentinel_split_move(w, node, newNode, i - 1),
                          newNode, i - 1,
                          elem(w, node, startIndex(w) + i - 1)),
             node, startIndex(w) + i - 1)

\* emplace_into_node_, the split: counts and links; a split tail makes
\* newNode the tail and ties it to dummy.
sentinel_split_link(w, node, newNode) ==
    [set_prev([w EXCEPT !.heap[node].count = @ - dataToMove(w),
                        !.heap[node].next = newNode,
                        !.heap[newNode].count = dataToMove(w),
                        !.heap[newNode].next = w.heap[node].next,
                        !.heap[newNode].prev = node],
              w.heap[node].next, newNode)
        EXCEPT !.tail = IF node = w.tail THEN newNode ELSE @,
               !.heap[newNode].next = IF node = w.tail THEN w.dummy ELSE @,
               !.heap[w.dummy].prev = IF node = w.tail THEN newNode ELSE @]

\* emplace_into_node_, the split of a full node into node and the new node p.
sentinel_split(cn, node) ==
    [w |-> sentinel_split_link(
               sentinel_split_move(cn.w, node, cn.p, dataToMove(cn.w)),
               node, cn.p),
     p |-> cn.p]

\* emplace_into_node_, the loop for (i = node->count; i > ptr; i--): the
\* element at i - 1 is move-constructed at i and destroyed at i - 1.
RECURSIVE sentinel_shift_up(_, _, _, _)
sentinel_shift_up(w, node, i, ptr) ==
    IF i > ptr
    THEN sentinel_shift_up(
             destroy_at(construct_at(w, node, i, elem(w, node, i - 1)),
                        node, i - 1),
             node, i - 1, ptr)
    ELSE w

\* emplace_into_node_, from the shift on: the element is constructed at ptr.
sentinel_place(w, node, ptr, v) ==
    [w |-> [construct_at(sentinel_shift_up(w, node, w.heap[node].count, ptr),
                         node, ptr, v)
               EXCEPT !.heap[node].count = @ + 1, !.total_size = @ + 1],
     ret |-> Iter(node, ptr), exc |-> "none"]

\* emplace_into_node_, after the split: if (ptr > node->count) the new
\* node takes the element.
sentinel_retarget(sp, node, ptr, v) ==
    IF ptr > sp.w.heap[node].count
    THEN sentinel_place(sp.w, sp.p, ptr - sp.w.heap[node].count, v)
    ELSE sentinel_place(sp.w, node, ptr, v)

sentinel_emplace_into_node_(w, node, ptr, v) ==
    IF w.heap[node].count = w.cap
    THEN sentinel_retarget(sentinel_split(create_node(w), node), node, ptr, v)
    ELSE sentinel_place(w, node, ptr, v)

\* emplace: if (head == nullptr) the first node is made and tied to dummy.
sentinel_ensure_head(w) ==
    IF w.head = Null
    THEN [create_node(w).w EXCEPT !.head = NewId(w), !.tail = NewId(w),
                                  !.heap[NewId(w)].next = w.dummy,
                                  !.heap[w.dummy].prev = NewId(w)]
    ELSE w

\* emplace, after the first node is there; atEnd is pos == cend().
sentinel_emplace_at(w, pos, v, atEnd) ==
    IF atEnd
    THEN sentinel_emplace_into_node_(w, w.tail, w.heap[w.tail].count, v)
    ELSE sentinel_emplace_into_node_(w, pos.node, pos.index, v)

sentinel_emplace(w, pos, v) ==
    sentinel_emplace_at(sentinel_ensure_head(w), pos, v, pos = sentinel_end(w))

sentinel_push_back(w, v) == sentinel_emplace(w, sentinel_end(w), v)
sentinel_push_front(w, v) == sentinel_emplace(w, sentinel_begin(w), v)

\* erase: for (i = from; i < node->count; ++i) data[i - shift] = move(data[i])
\* The source is left moved-from.  With shift 0 each element is assigned to
\* itself and keeps its value (the program's elements are ints).
RECURSIVE sentinel_shift_down(_, _, _, _)
sentinel_shift_down(w, node, i, shift) ==
    IF shift = 0 \/ i >= w.heap[node].count THEN w
    ELSE sentinel_shift_down(
             [w EXCEPT !.heap[node].data[i - shift] = w.heap[node].data[i],
                       !.heap[node].data[i] = MOVED,
                       !.work = @ + 1,
                       !.misuse = @ \/ w.heap[node].data[i - shift] = RAW],
             node, i + 1, shift)

\* size_type subtraction c - n.
Minus(c, n) == IF c >= n THEN c - n ELSE SIZE_MAX - (n - c - 1)

\* erase: node->count goes down by gone, total_size by erasedCount.
sentinel_uncount(w, node, gone, erasedCount) ==
    [w EXCEPT !.heap[node].count = Minus(@, gone),
              !.total_size = Minus(@, erasedCount)]

\* erase, same-node case, an emptied node that is not the only one: the
\* links around it.
sentinel_unlink(w, node) ==
    IF node = w.head
    THEN [w EXCEPT !.head = w.heap[node].next,
                   !.heap[w.heap[node].next].prev = Null]
    ELSE IF node = w.tail
    THEN [w EXCEPT !.tail = w.heap[node].prev,
                   !.heap[w.heap[node].prev].next = w.dummy,
                   !.heap[w.dummy].prev = w.heap[node].prev]
    ELSE [w EXCEPT !.heap[w.heap[node].prev].next = w.heap[node].next,
                   !.heap[w.heap[node].next].prev = w.heap[node].prev]

\* erase, same-node case, the end: an emptied only node is let go of (and
\* not deleted), any other emptied node is unlinked and deleted.
sentinel_finish_same(w, start_node, start_index) ==
    IF w.heap[start_node].count = 0
    THEN IF w.head = w.tail
         THEN [w |-> [w EXCEPT !.head = Null, !.tail = Null,
                               !.heap[w.dummy].prev = Null],
               ret |-> Iter(w.dummy, 0), exc |-> "none"]
         ELSE [w |-> destroy_node(sentinel_unlink(w, start_node), start_node),
               ret |-> Iter(w.dummy, 0), exc |-> "none"]
    ELSE [w |-> w, ret |-> Iter(start_node, start_index), exc |-> "none"]

\* erase, the case start_node == end_node.  With end_index past count the
\* call destroys a slot that holds no element and count wraps ("slot").
sentinel_erase_same(w, node, start_index, end_index) ==
    [sentinel_finish_same(
         sentinel_uncount(
             sentinel_shift_down(
                 destroy_range(w, node, start_index, end_index),
                 node, end_index, end_index - start_index),
             node, end_index - start_index, end_index - start_index),
         node, start_index)
        EXCEPT !.exc = IF end_index <= w.heap[node].count
                       THEN "none" ELSE "slot"]

\* erase, cross-node case, the loop while (cur != end_node): the elements
\* of cur are destroyed, cur is unlinked and deleted (~Node runs over
\* [0, count) again); the container after it and the elements counted.
RECURSIVE sentinel_erase_between(_, _, _, _)
sentinel_erase_between(w, cur, end_node, erasedCount) ==
    IF cur # Null /\ cur # end_node
    THEN sentinel_erase_between(
             destroy_node(
                 [set_prev(set_next(destroy_range(w, cur, 0,
                                                  w.heap[cur].count),
                                    w.heap[cur].prev, w.heap[cur].next),
                           w.heap[cur].next, w.heap[cur].prev)
                     EXCEPT !.tail = IF cur = w.tail THEN w.heap[cur].prev
                                     ELSE @],
                 cur),
             w.heap[cur].next, end_node,
             erasedCount + Rounds(0, w.heap[cur].count))
    ELSE [w |-> w, erasedCount |-> erasedCount]

\* erase, cross-node case, the end:
\*   if (end_node->count == 0 && head != end_node) { unlink; delete; }
\* The unlink of an end_node that is not the tail is
\*   end_node->prev->next = end_node->next;
\*   end_node->next->prev = end_node->prev;
\* With no prev, or no next, a store goes through a null pointer ("null"),
\* after which the call goes on as if the store had not been made.
sentinel_finish_cross(w, end_node) ==
    IF w.heap[end_node].count # 0 \/ w.head = end_node
    THEN [w |-> w, ret |-> Iter(end_node, 0), exc |-> "none"]
    ELSE IF end_node = w.tail
    THEN [w |-> destroy_node(
                    [w EXCEPT !.tail = w.heap[end_node].prev,
                              !.heap[w.heap[end_node].prev].next = w.dummy,
                              !.heap[w.dummy].prev = w.heap[end_node].prev],
                    end_node),
          ret |-> Iter(w.dummy, 0), exc |-> "none"]
    ELSE [w |-> destroy_node(
                    set_prev(set_next(w, w.heap[end_node].prev,
                                      w.heap[end_node].next),
                             w.heap[end_node].next, w.heap[end_node].prev),
                    end_node),
          ret |-> Iter(w.dummy, 0),
          exc |-> IF w.heap[end_node].prev = Null \/
                     w.heap[end_node].next = Null
                  THEN "null" ELSE "none"]

\* erase, cross-node case, from the end node on; mid is the container and
\* erasedCount after the loop over the nodes in between.
sentinel_erase_last(mid, end_node, end_index) ==
    sentinel_finish_cross(
        sentinel_uncount(
            sentinel_shift_down(destroy_range(mid.w, end_node, 0, end_index),
                                end_node, end_index, end_index),
            end_node, end_index, mid.erasedCount + Rounds(0, end_index)),
        end_node)

\* erase, cross-node case: the first node is cut down to start_index and
\* stays in the chain whatever it keeps.
sentinel_erase_cross(w, start_node, start_index, end_node, end_index) ==
    sentinel_erase_last(
        sentinel_erase_between(truncate_first(w, start_node, start_index),
                               w.heap[start_node].next, end_node,
                               Rounds(start_index, w.heap[start_node].count)),
        end_node, end_index)

\* erase(first, last)
sentinel_erase(w, first, last) ==
    IF first = last
    THEN [w |-> w, ret |-> Iter(first.node, first.index), exc |-> "none"]
    ELSE IF first.node = last.node
    THEN sentinel_erase_same(w, first.node, first.index, last.index)
    ELSE sentinel_erase_cross(w, first.node, first.index,
                              last.node, last.index)

\* erase(pos)
sentinel_erase_pos(w, pos) == sentinel_erase(w, pos, sentinel_inc(w, pos))

\* pop_back: erase(--end())
sentinel_pop_back(w) == sentinel_erase_pos(w, sentinel_dec(w, sentinel_end(w)))

\* pop_front: erase(begin())
sentinel_pop_front(w) == sentinel_erase_pos(w, sentinel_begin(w))

\* for (auto it = rbegin(); it != rend(); ++it): ++ on a reverse iterator
\* is -- on its base, which runs from end() to begin(); the positions the
\* base takes.
RECURSIVE sentinel_rwalk(_, _, _)
sentinel_rwalk(w, it, fuel) ==
    IF it = sentinel_begin(w) \/ fuel = 0 THEN <<>>
    ELSE <<sentinel_dec(w, it)>> \o
         sentinel_rwalk(w, sentinel_dec(w, it), fuel - 1)

\* The iterators that designate an element of the draft's container.
SentinelPositions(w) ==
    {it \in [node : ChainNodes(w) \ {w.dummy}, index : Slots] :
        it.index < w.heap[it.node].count}

SentinelAll == SentinelPositions(SentinelWorld) \cup {sentinel_end(SentinelWorld)}

\* first is not after last.
SentinelOrdered(w, first, last) ==
    \/ first = last
    \/ /\ first # sentinel_end(w)
       /\ Offset(w, first) <= Offset(w, last)

\* Calls on the draft are made on a constructed container while no call is
\* under observation.
SentinelRunning == lastOp = NoCall /\ dummy # Null

\* The state after a call with result r.  A call whose behaviour is
\* undefined (exc "null": a store through a null link; "slot": a slot
\* outside the elements destroyed) either returns, with the container as
\* the remaining statements leave it, or does not, and then the container
\* is as the call found it; in both cases the run is followed no further.
\* An observed call is recorded and not followed further either.
SentinelCommit(r, op, first, last, obs, returns) ==
    /\ IF r.exc = "none" \/ returns
       THEN /\ heap' = r.w.heap
            /\ head' = r.w.head
            /\ tail' = r.w.tail
            /\ total_size' = r.w.total_size
       ELSE UNCHANGED <<heap, head, tail, total_size>>
    /\ IF obs \/ r.exc # "none"
       THEN /\ lastOp' = Call(op, r.exc, first, last, 0, 0, 0)
            /\ ret' = r.ret
            /\ pre' = <<SentinelWorld>>
       ELSE UNCHANGED <<lastOp, ret, pre>>
    /\ UNCHANGED <<ref, scen, other, refOther, on, nodeMax, dummy>>

\* unrolled_list(): head and tail null, dummy(new Node(allocator)).
InitSentinel ==
    /\ heap = create_node(EmptyList).w.heap
    /\ head = Null
    /\ tail = Null
    /\ total_size = 0
    /\ dummy = create_node(EmptyList).p
    /\ ref = <<>>
    /\ lastOp = NoCall
    /\ ret = Iter(Null, 0)
    /\ pre = <<>>
    /\ scen = NoScen
    /\ other = NoOther
    /\ refOther = <<>>
    /\ on = On("none", "none")
    /\ nodeMax = NodeMaxSize

\* The draft keeps its emptied nodes, so insertions that allocate (the
\* first node, or the new node of a split) are offered while the nodes it
\* holds, dummy included, are fewer than MaxDraftNodes.
SentinelCanEmplace(pos) ==
    /\ total_size < MaxSize
    /\ (\/ head = Null
        \/ heap[IF pos = sentinel_end(SentinelWorld) THEN tail
                ELSE pos.node].count = nodeMax) =>
          Cardinality(NodeIds \ FreeIds(SentinelWorld)) < MaxDraftNodes

SentinelPushBack(v) ==
    /\ SentinelRunning
    /\ SentinelCanEmplace(sentinel_end(SentinelWorld))
    /\ SentinelCommit(sentinel_push_back(SentinelWorld, v), "push_back",
                      sentinel_end(SentinelWorld), sentinel_end(SentinelWorld),
                      FALSE, TRUE)

SentinelPushFront(v) ==
    /\ SentinelRunning
    /\ SentinelCanEmplace(sentinel_begin(SentinelWorld))
    /\ SentinelCommit(sentinel_push_front(SentinelWorld, v), "push_front",
                      sentinel_begin(SentinelWorld),
                      sentinel_begin(SentinelWorld), FALSE, TRUE)

SentinelInsert(pos, v) ==
    /\ SentinelRunning
    /\ SentinelCanEmplace(pos)
    /\ SentinelCommit(sentinel_emplace(SentinelWorld, pos, v), "insert",
                      pos, pos, FALSE, TRUE)

SentinelErase(pos, returns) ==
    /\ SentinelRunning
    /\ SentinelCommit(sentinel_erase_pos(SentinelWorld, pos), "erase",
                      pos, sentinel_inc(SentinelWorld, pos), FALSE, returns)

SentinelEraseRange(first, last, returns) ==
    /\ SentinelRunning
    /\ SentinelOrdered(SentinelWorld, first, last)
    /\ SentinelCommit(sentinel_erase(SentinelWorld, first, last),
                      "erase_range", first, last, FALSE, returns)

\* pop_back / pop_front are called on a container that is not empty.
SentinelPopBack(returns) ==
    /\ SentinelRunning
    /\ total_size > 0
    /\ SentinelCommit(sentinel_pop_back(SentinelWorld), "pop_back",
                      sentinel_end(SentinelWorld), sentinel_end(SentinelWorld),
                      FALSE, returns)

SentinelPopFront(returns) ==
    /\ SentinelRunning
    /\ total_size > 0
    /\ SentinelCommit(sentinel_pop_front(SentinelWorld), "pop_front",
                      sentinel_begin(SentinelWorld),
                      sentinel_begin(SentinelWorld), FALSE, returns)

\* --it on an iterator of the container.
SentinelDecrement(it) ==
    /\ SentinelRunning
    /\ SentinelCommit([w |-> SentinelWorld,
                       ret |-> sentinel_dec(SentinelWorld, it),
                       exc |-> "none"],
                      "decrement", it, it, TRUE, TRUE)

\* A walk from rbegin() by ++ up to rend().
SentinelReverseTraverse ==
    /\ SentinelRunning
    /\ SentinelCommit([w |-> SentinelWorld,
                       ret |-> sentinel_rwalk(SentinelWorld,
                                              sentinel_end(SentinelWorld),
                                              MaxIter),
                       exc |-> "none"],
                      "rtraverse", sentinel_end(SentinelWorld),
                      sentinel_begin(SentinelWorld), TRUE, TRUE)

NextSentinel ==
    \/ \E v \in Values : SentinelPushBack(v)
    \/ \E v \in Values : SentinelPushFront(v)
    \/ \E pos \in SentinelAll, v \in Values : SentinelInsert(pos, v)
    \/ \E pos \in SentinelPositions(SentinelWorld), returns \in BOOLEAN :
          SentinelErase(pos, returns)
    \/ \E first \in SentinelAll, last \in SentinelAll, returns \in BOOLEAN :
          SentinelEraseRange(first, last, returns)
    \/ \E returns \in BOOLEAN : SentinelPopBack(returns)
    \/ \E returns \in BOOLEAN : SentinelPopFront(returns)
    \/ \E it \in SentinelAll : SentinelDecrement(it)
    \/ SentinelReverseTraverse

SpecSentinel == InitSentinel /\ [][NextSentinel]_vars

\* The draft's container holds no node without elements, the sentinel aside.
SentinelPacked(w) ==
    \A n \in ChainNodes(w) \ {w.dummy} : w.heap[n].count > 0

\* C35: in the sentinel-based draft, after every completed erase, pop_front
\* or pop_back no node with count == 0 other than the sentinel is reachable
\* from head, and begin() designates an element whenever size() > 0.
C35_SentinelNoEmptyNode ==
    (dummy # Null /\ lastOp.exc = "none") =>
        /\ SentinelPacked(SentinelWorld)
        /\ total_size > 0 =>
              sentinel_begin(SentinelWorld) \in SentinelPositions(SentinelWorld)

\* C36: in the sentinel-based draft the sentinel is never destroyed or
\* unlinked: end() designates a live node, a non-empty container has
\* tail.next == dummy and dummy.prev == tail, and no call stores through a
\* null link.
C36_SentinelKept ==
    dummy # Null =>
        /\ lastOp.exc # "null"
        /\ heap[dummy].live
        /\ total_size > 0 =>
              /\ tail # Null
              /\ heap[tail].next = dummy
              /\ heap[dummy].prev = tail

\* C37: in the sentinel-based draft, on a container without empty nodes,
\* -- on any position other than begin() (end() included) yields the
\* position one element before it, and the walk from rbegin() to rend()
\* takes size() steps.
C37_SentinelDecrement ==
    (dummy # Null /\ SentinelPacked(SentinelWorld)) =>
        /\ (lastOp.op = "decrement" /\
            lastOp.first # sentinel_begin(SentinelWorld)) =>
              /\ ret \in SentinelPositions(SentinelWorld)
              /\ Offset(SentinelWorld, ret) =
                    Offset(SentinelWorld, lastOp.first) - 1
        /\ lastOp.op = "rtraverse" => Len(ret) = total_size

\* The nodes of container w hold a reference to w's own allocator member.
BoundToOwn(w) == \A n \in ChainNodes(w) : w.heap[n].allocator = w.allocator

\* C38: the allocator reference stored in each node reachable from a
\* container's head refers to the allocator member of that same container,
\* also after move construction, move assignment and copy assignment.
C38_NodesReferOwnAllocator ==
    /\ BoundToOwn(World)
    /\ other.live => BoundToOwn(OtherWorld)

====
